---- MODULE Spec2Model ----
(***************************************************************************)
(* Multi-strategy conversation extraction engine: DOMIntelligentAnalyzer    *)
(* (orchestrator), BaseStrategy helpers, StructureStrategy and              *)
(* ReactStrategy.                                                           *)
(*                                                                          *)
(* Numbers: every confidence is an integer count of 1/ConfScale, so that    *)
(* 0.6, 0.7, 0.9, 0.95, k/14 * 0.15 and m/L * 0.2 (L <= 5) are exact.  A    *)
(* score of evaluateExtraction is a rational [nan, num, den]; nan models    *)
(* the IEEE NaN that 0/0 produces.                                          *)
(***************************************************************************)
EXTENDS Integers, Sequences, FiniteSets, TLC

VARIABLES
    dom,            \* the descendants of the located container, document order
    page,           \* the rest of the page: [hook, fiber, visual, url, title]
    now,            \* the clock (Date.now(), new Date())
    pc,             \* position of the running operation
    elements,       \* fallbackToSequentialPairing: const elements
    i,              \* fallbackToSequentialPairing: loop index (1-based here)
    userElement,    \* fallbackToSequentialPairing: remembered user (0 = null)
    conversation,   \* fallbackToSequentialPairing: rounds emitted so far
    sIdx,           \* analyze: position in this.strategies of the next strategy
    bestResult,     \* analyze: <<>> for null, else <<result>>
    bestScore,      \* analyze: best score so far
    log,            \* history: one entry per strategy run (or per evaluation)
    outcome,        \* what analyze() produced
    messages,       \* extractReactFiberData: the records pushed by traverse
    userMessage,    \* extractFromReactData: remembered record (0 = null)
    clusterCandidates, \* findMessageClusters: const candidateElements
    clusters,       \* findMessageClusters: const clusters
    processed,      \* findMessageClusters: const processed
    requests        \* content script: the requests received, with their responses

vars == <<dom, page, now, pc, elements, i, userElement, conversation,
          sIdx, bestResult, bestScore, log, outcome,
          messages, userMessage, clusterCandidates, clusters, processed, requests>>

pairLocals == <<elements, i, userElement, conversation>>
analyzeLocals == <<sIdx, bestResult, bestScore, log, outcome>>
probeLocals == <<messages, userMessage>>
clusterLocals == <<clusterCandidates, clusters, processed>>

(***************************************************************************)
(* Bounds                                                                  *)
(***************************************************************************)
MaxElems == 5          \* longest container child list explored by SpecPair
MaxEdgeElems == 3      \* longest child list of SpecPair holding empty or tied elements
MaxBlocks == 3         \* most blocks in the container of a page given to analyze()
MaxValidateBlocks == 2 \* most blocks in the container of a page of SpecValidate
MaxClock == 2          \* last clock value of SpecValidate
MaxEvalRounds == 4     \* most rounds of a result scored by SpecEval
MaxProbeNodes == 4     \* most nodes below the root of a retained tree of SpecProbe
MaxSiblings == 4       \* most blocks in the container of SpecCluster
MaxLongSiblings == 6   \* most blocks in a container of SpecCluster built from three kinds
MaxNestedBlocks == 3   \* most blocks in the container of SpecFilter
MaxRequests == 3       \* most requests the content script receives in SpecContent

(***************************************************************************)
(* Program constants                                                       *)
(***************************************************************************)
ConfScale == 4200      \* one unit of confidence = 1/4200
MinFilterText == 10
ConfCap == 3990        \* 0.95
StructBase == 2520     \* 0.6
StructPathWeight == 840    \* 0.2
StructPosBonus == 630      \* 0.15
StructStyleWeight == 630   \* 0.15
StructMaxGapPx == 500
PathLevels == 5
NumStyleProps == 14
ProbeConfidence == 3780    \* 0.9
DomBase == 2940            \* 0.7
DomPosBonus == 840         \* 0.2
DomClassBonus == 420       \* 0.1

(***************************************************************************)
(* Generic helpers                                                         *)
(***************************************************************************)
Min(a, b) == IF a <= b THEN a ELSE b
Max(a, b) == IF a >= b THEN a ELSE b

RECURSIVE Rep(_, _)
Rep(c, n) == IF n = 0 THEN <<>> ELSE <<c>> \o Rep(c, n - 1)

\* Array.prototype.filter with a predicate given as the set of kept values
RECURSIVE SelectIdx(_, _, _)
SelectIdx(s, keep, k) ==
    IF k > Len(s) THEN <<>>
    ELSE (IF k \in keep THEN <<s[k]>> ELSE <<>>) \o SelectIdx(s, keep, k + 1)

\* Array.prototype.indexOf, 1-based; 0 when absent
IndexOf(s, x) ==
    IF \E k \in 1..Len(s) : s[k] = x
    THEN CHOOSE k \in 1..Len(s) : s[k] = x /\ \A j \in 1..(k - 1) : s[j] # x
    ELSE 0

\* String.prototype.trim on a sequence of characters; " " is the only
\* white-space character of the alphabet
RECURSIVE TrimLeft(_)
TrimLeft(s) == IF s # <<>> /\ Head(s) = " " THEN TrimLeft(Tail(s)) ELSE s
RECURSIVE TrimRight(_)
TrimRight(s) ==
    IF s # <<>> /\ s[Len(s)] = " " THEN TrimRight(SubSeq(s, 1, Len(s) - 1)) ELSE s
Trim(s) == TrimRight(TrimLeft(s))

(***************************************************************************)
(* The rendered tree.  A node is a record                                  *)
(*   parent : index in dom of the parent, 0 = child of the container       *)
(*   tag    : tag name, lower case                                         *)
(*   cls    : className as the sequence of its space-separated tokens      *)
(*   own    : the characters of the node's own text nodes                  *)
(*   kw     : the keywords that occur in the node's own text               *)
(*   top, bottom : getBoundingClientRect                                   *)
(*   style  : the 14 computed-style properties read by the strategy        *)
(***************************************************************************)
\* substrings of a class token, restricted to the keywords the code looks for
TokenHas(tok) ==
    CASE tok = "message"       -> {"message"}
      [] tok = "user"          -> {"user"}
      [] tok = "assistant"     -> {"assistant"}
      [] tok = "user-question" -> {"user", "question"}
      [] tok = "ai-answer"     -> {"ai", "answer"}
      [] tok = "bubble"        -> {"bubble"}
      [] tok = "chat"          -> {"chat"}
      [] OTHER                 -> {}

Children(d, n) == {k \in 1..Len(d) : d[k].parent = n}

RECURSIVE Descendants(_, _)
Descendants(d, n) ==
    LET ch == Children(d, n)
    IN  ch \cup UNION {Descendants(d, k) : k \in ch}

\* other.contains(element): a node contains itself and its descendants
Contains(d, other, n) == other = n \/ n \in Descendants(d, other)

\* element.className.includes(kw)
ClassIncludes(d, n, kw) == \E k \in 1..Len(d[n].cls) : kw \in TokenHas(d[n].cls[k])

\* element.textContent: own text followed by the text of the children
RECURSIVE ConcatText(_, _, _)
TextContent(d, n) == d[n].own \o ConcatText(d, n, 1)
ConcatText(d, n, k) ==
    IF k > Len(d) THEN <<>>
    ELSE (IF d[k].parent = n THEN TextContent(d, k) ELSE <<>>) \o ConcatText(d, n, k + 1)

\* element.textContent.includes(kw)
TextIncludes(d, n, kw) == \E k \in {n} \cup Descendants(d, n) : kw \in d[k].kw

\* element.outerHTML.toLowerCase().includes(kw): tag, attributes and text of
\* the node and of everything below it
HtmlIncludes(d, n, kw) ==
    \E k \in {n} \cup Descendants(d, n) :
        kw \in d[k].kw \/ ClassIncludes(d, k, kw) \/ d[k].tag = kw

\* element.querySelector('[class*="kw"]') !== null
HasDescendantClass(d, n, kw) == \E k \in Descendants(d, n) : ClassIncludes(d, k, kw)

Count(flags) == Cardinality({k \in 1..Len(flags) : flags[k]})

\* "yonghu" and "huida" stand for the two Chinese keywords of the source
userIndicators(d, n) == <<
    ClassIncludes(d, n, "user"),
    ClassIncludes(d, n, "human"),
    ClassIncludes(d, n, "question"),
    HtmlIncludes(d, n, "user"),
    TextIncludes(d, n, "yonghu") \/ TextIncludes(d, n, "question"),
    HasDescendantClass(d, n, "user") >>

aiIndicators(d, n) == <<
    ClassIncludes(d, n, "assistant"),
    ClassIncludes(d, n, "ai"),
    ClassIncludes(d, n, "bot"),
    ClassIncludes(d, n, "answer"),
    HtmlIncludes(d, n, "assistant"),
    TextIncludes(d, n, "assistant") \/ TextIncludes(d, n, "huida"),
    HasDescendantClass(d, n, "assistant") >>

\* a plausible slip: an element without any cue gets a third role
classifyMessage_Unknown(d, n) ==
    LET userScore == Count(userIndicators(d, n))
        aiScore == Count(aiIndicators(d, n))
    IN  IF userScore = 0 /\ aiScore = 0 THEN "unknown"
        ELSE IF userScore >= aiScore THEN "user" ELSE "assistant"

\* a slip: > for >=, a tie goes to 'assistant'
classifyMessage_Strict(d, n) ==
    LET userScore == Count(userIndicators(d, n))
        aiScore == Count(aiIndicators(d, n))
    IN  IF userScore > aiScore THEN "user" ELSE "assistant"

classifyMessage(d, n) ==
    LET userScore == Count(userIndicators(d, n))
        aiScore == Count(aiIndicators(d, n))
    IN  IF userScore >= aiScore THEN "user" ELSE "assistant"

\* the predicate of the first filter (lines 59-74)
IsFilterCandidate(d, n) ==
    LET text == TextContent(d, n)
    IN  /\ ~(text # <<>> /\ Len(Trim(text)) < MinFilterText)
        /\ \/ HtmlIncludes(d, n, "message")
           \/ HtmlIncludes(d, n, "bubble")
           \/ HtmlIncludes(d, n, "chat")
           \/ ClassIncludes(d, n, "message")

\* a plausible slip: the second filter (lines 77-81) is left out
extractMessageElements_NoDedup(d) ==
    SelectIdx([n \in 1..Len(d) |-> n], {n \in 1..Len(d) : IsFilterCandidate(d, n)}, 1)

\* extractMessageElements: the ids of the kept nodes, document order
extractMessageElements(d) ==
    LET candidates == {n \in 1..Len(d) : IsFilterCandidate(d, n)}
        kept == {n \in candidates :
                    ~\E other \in candidates : other # n /\ Contains(d, other, n)}
    IN  SelectIdx([n \in 1..Len(d) |-> n], kept, 1)

(***************************************************************************)
(* StructureStrategy: building a round from two elements                   *)
(***************************************************************************)
IsCodeTag(t) == t \in {"pre", "code"}
IsHeadingTag(t) == t \in {"h1", "h2", "h3", "h4", "h5", "h6"}

\* querySelector('pre, code') looks below the element; the regular
\* expression on outerHTML also sees the element's own attribute-free tag
containsCode(d, n) ==
    \/ \E k \in Descendants(d, n) : IsCodeTag(d[k].tag)
    \/ TextIncludes(d, n, "fence")
    \/ \E k \in {n} \cup Descendants(d, n) : IsCodeTag(d[k].tag) /\ d[k].cls = <<>>

extractText(d, n) == Trim(TextContent(d, n))

analyzeFormat(d, n) ==
    [hasCodeBlocks |-> containsCode(d, n),
     hasHeadings   |-> \E k \in {n} \cup Descendants(d, n) : IsHeadingTag(d[k].tag)]

\* the page above the container, outermost first; the last entry is the
\* container itself
ContainerPath == << <<"html", <<>> >>, <<"body", <<>> >>, <<"main", <<"chat">> >> >>

RECURSIVE AncestorChain(_, _)
AncestorChain(d, n) ==
    IF n = 0 THEN ContainerPath
    ELSE AncestorChain(d, d[n].parent) \o << <<d[n].tag, d[n].cls>> >>

getElementPath(d, n) ==
    LET chain == AncestorChain(d, n)
    IN  SubSeq(chain, Max(1, Len(chain) - PathLevels + 1), Len(chain))

\* matches * 0.2 / longer length, in confidence units
calculatePathSimilarity(parts1, parts2) ==
    LET minLength == Min(Len(parts1), Len(parts2))
        matches == Cardinality({k \in 1..minLength : parts1[k] = parts2[k]})
    IN  (matches * StructPathWeight) \div Max(Len(parts1), Len(parts2))

\* matches * 0.15 / 14, in confidence units
calculateStyleSimilarity(d, n1, n2) ==
    LET matches == Cardinality({p \in 1..NumStyleProps : d[n1].style[p] = d[n2].style[p]})
    IN  (matches * StructStyleWeight) \div NumStyleProps

\* a plausible slip: the Math.min of line 487 is left out
calculateStructureConfidence_NoCap(d, u, a) ==
    LET c1 == StructBase + calculatePathSimilarity(getElementPath(d, u), getElementPath(d, a))
        c2 == IF d[a].top > d[u].bottom /\ d[a].top - d[u].bottom < StructMaxGapPx
              THEN c1 + StructPosBonus ELSE c1
    IN  c2 + calculateStyleSimilarity(d, u, a)

calculateStructureConfidence(d, u, a) ==
    LET c1 == StructBase + calculatePathSimilarity(getElementPath(d, u), getElementPath(d, a))
        c2 == IF d[a].top > d[u].bottom /\ d[a].top - d[u].bottom < StructMaxGapPx
              THEN c1 + StructPosBonus ELSE c1
        c3 == c2 + calculateStyleSimilarity(d, u, a)
    IN  Min(c3, ConfCap)

\* src is the node a message was built from; the program keeps it only as
\* metadata.elementInfo
createConversationRound(d, index, u, a) ==
    [index     |-> index,
     user      |-> [role |-> "user", text |-> extractText(d, u), src |-> u],
     assistant |-> [role |-> "assistant", text |-> extractText(d, a), src |-> a,
                    formatAnalysis |-> analyzeFormat(d, a)],
     metadata  |-> [extractionConfidence |-> calculateStructureConfidence(d, u, a),
                    elementCount |-> 2]]

(***************************************************************************)
(* StructureStrategy.fallbackToSequentialPairing                           *)
(***************************************************************************)
\* a plausible slip: the first remembered user is kept, as in
\* processMessageCluster, and the distance test is left out
PairStep_KeepFirstNoGap(d, els, st, k) ==
    LET role == classifyMessage(d, els[k])
    IN  IF role = "user" /\ st.userElement = 0
        THEN [st EXCEPT !.userElement = els[k]]
        ELSE IF role = "assistant" /\ st.userElement # 0
        THEN [userElement |-> 0,
              conversation |-> Append(st.conversation,
                  createConversationRound(d, Len(st.conversation) + 1, st.userElement, els[k]))]
        ELSE st

\* a plausible slip: line 325 is left out and the user stays remembered
\* after its round
PairStep_KeepUserAfterRound(d, els, st, k) ==
    LET role == classifyMessage(d, els[k])
    IN  IF role = "user"
        THEN [st EXCEPT !.userElement = els[k]]
        ELSE IF role = "assistant" /\ st.userElement # 0 /\ k - IndexOf(els, st.userElement) <= 3
        THEN [st EXCEPT !.conversation = Append(st.conversation,
                  createConversationRound(d, Len(st.conversation) + 1, st.userElement, els[k]))]
        ELSE st

\* one iteration of the for loop (lines 310-329); k is i + 1
PairStep(d, els, st, k) ==
    LET role == classifyMessage(d, els[k])
    IN  IF role = "user"
        THEN [st EXCEPT !.userElement = els[k]]
        ELSE IF role = "assistant" /\ st.userElement # 0
        THEN LET userIndex == IndexOf(els, st.userElement)
             IN  IF k - userIndex <= 3
                 THEN [userElement |-> 0,
                       conversation |-> Append(st.conversation,
                           createConversationRound(d, Len(st.conversation) + 1,
                                                   st.userElement, els[k]))]
                 ELSE st
        ELSE st

RECURSIVE PairFrom(_, _, _, _)
PairFrom(d, els, st, k) ==
    IF k > Len(els) THEN st.conversation
    ELSE PairFrom(d, els, PairStep(d, els, st, k), k + 1)

fallbackToSequentialPairing(d) ==
    PairFrom(d, extractMessageElements(d), [userElement |-> 0, conversation |-> <<>>], 1)

(***************************************************************************)
(* StructureStrategy.findMessageClusters and the cluster path              *)
(***************************************************************************)
RECURSIVE calculateMaxDepth(_, _, _)
calculateMaxDepth(d, n, depth) ==
    LET ch == Children(d, n)
        below == {calculateMaxDepth(d, k, depth + 1) : k \in ch}
    IN  IF ch = {} THEN depth
        ELSE CHOOSE m \in below : \A x \in below : x <= m

IsClusterCandidate(d, n) ==
    LET textLen == Len(Trim(TextContent(d, n)))
        children == Cardinality(Children(d, n))
        depth == calculateMaxDepth(d, n, 0)
        hasComplexContent == children > 0 \/ depth > 2
    IN  /\ ~(textLen < 20 /\ ~containsCode(d, n))
        /\ hasComplexContent
        /\ textLen > 10

candidateElements(d) == {n \in 1..Len(d) : IsClusterCandidate(d, n)}

\* the features joined by '|' and split again into a Set: a set of features
calculateElementSignature(d, n) ==
    LET textLength == Len(TextContent(d, n))
        below == Descendants(d, n)
    IN  {<<"tag", d[n].tag>>}
        \cup {<<"cls", d[n].cls[k]>> : k \in 1..Min(3, Len(d[n].cls))}
        \cup {<<"children", Cardinality(Children(d, n))>>}
        \cup {<<"text", IF textLength < 100 THEN "short"
                        ELSE IF textLength < 500 THEN "medium" ELSE "long">>}
        \cup (IF containsCode(d, n) THEN {<<"has", "code">>} ELSE {})
        \cup (IF \E k \in below : d[k].tag \in {"ul", "ol", "li"}
              THEN {<<"has", "list">>} ELSE {})
        \cup (IF \E k \in below : d[k].tag = "img" THEN {<<"has", "img">>} ELSE {})

\* a slip: the size of the first set for the size of the union
JaccardSimilarity_OverFirst(sig1, sig2) ==
    [num |-> Cardinality(sig1 \cap sig2), den |-> Cardinality(sig1)]

\* const similarity = intersection.size / union.size, as the rational
\* num / den
JaccardSimilarity(sig1, sig2) ==
    [num |-> Cardinality(sig1 \cap sig2), den |-> Cardinality(sig1 \cup sig2)]

\* similarity > 0.6
SimilarityOverThreshold(sim) == 5 * sim.num > 3 * sim.den

isSimilarSignature(sig1, sig2) == SimilarityOverThreshold(JaccardSimilarity(sig1, sig2))

\* previousElementSibling / nextElementSibling, 0 = null
previousElementSibling(d, n) ==
    LET sibs == {k \in 1..(n - 1) : d[k].parent = d[n].parent}
    IN  IF sibs = {} THEN 0 ELSE CHOOSE k \in sibs : \A j \in sibs : j <= k

nextElementSibling(d, n) ==
    LET sibs == {k \in (n + 1)..Len(d) : d[k].parent = d[n].parent}
    IN  IF sibs = {} THEN 0 ELSE CHOOSE k \in sibs : \A j \in sibs : j >= k

\* the two while loops (lines 179-186 and 189-196); st = [cluster, processed]
RECURSIVE WalkSiblings(_, _, _, _, _, _)
WalkSiblings(d, cand, sig, sib, forward, st) ==
    IF sib # 0 /\ sib \in cand /\ sib \notin st.processed
    THEN LET similar == isSimilarSignature(sig, calculateElementSignature(d, sib))
             st2 == IF similar
                    THEN [cluster   |-> IF forward THEN Append(st.cluster, sib)
                                        ELSE <<sib>> \o st.cluster,
                          processed |-> st.processed \cup {sib}]
                    ELSE st
             nxt == IF forward THEN nextElementSibling(d, sib)
                    ELSE previousElementSibling(d, sib)
         IN  WalkSiblings(d, cand, sig, nxt, forward, st2)
    ELSE st

\* a slip: a.length - b.length, smallest cluster first
RECURSIVE SortBySize_Ascending(_)
SortBySize_Ascending(cs) ==
    IF cs = <<>> THEN <<>>
    ELSE LET smallest == CHOOSE k \in 1..Len(cs) :
                             /\ \A j \in 1..Len(cs) : Len(cs[k]) <= Len(cs[j])
                             /\ \A j \in 1..(k - 1) : Len(cs[j]) > Len(cs[k])
         IN  <<cs[smallest]>>
             \o SortBySize_Ascending(SubSeq(cs, 1, smallest - 1) \o SubSeq(cs, smallest + 1, Len(cs)))

\* clusters.sort((a, b) => b.length - a.length), a stable sort
RECURSIVE InsertBySize(_, _)
InsertBySize(sorted, c) ==
    IF sorted = <<>> THEN <<c>>
    ELSE IF Len(Head(sorted)) >= Len(c) THEN <<Head(sorted)>> \o InsertBySize(Tail(sorted), c)
    ELSE <<c>> \o sorted

RECURSIVE SortBySize(_)
SortBySize(cs) ==
    IF cs = <<>> THEN <<>>
    ELSE InsertBySize(SortBySize(SubSeq(cs, 1, Len(cs) - 1)), cs[Len(cs)])

\* one iteration of the for loop over candidateElements (lines 165-201) on
\* element n; acc = [clusters, processed]
SeedStep(d, cand, n, acc) ==
    IF n \notin cand \/ n \in acc.processed THEN acc
    ELSE LET sig == calculateElementSignature(d, n)
             st0 == [cluster |-> <<n>>, processed |-> acc.processed \cup {n}]
             st1 == WalkSiblings(d, cand, sig, previousElementSibling(d, n), FALSE, st0)
             st2 == WalkSiblings(d, cand, sig, nextElementSibling(d, n), TRUE, st1)
         IN  [clusters  |-> IF Len(st2.cluster) >= 2
                            THEN Append(acc.clusters, st2.cluster) ELSE acc.clusters,
              processed |-> st2.processed]

\* the for loop; n runs over the node ids in document order
RECURSIVE ClusterFrom(_, _, _, _)
ClusterFrom(d, cand, n, acc) ==
    IF n > Len(d) THEN acc.clusters
    ELSE ClusterFrom(d, cand, n + 1, SeedStep(d, cand, n, acc))

findMessageClusters(d) ==
    SortBySize(ClusterFrom(d, candidateElements(d), 1, [clusters |-> <<>>, processed |-> {}]))

\* a slip: the remembered user is overwritten by every later user, as in
\* sequential pairing
processMessageCluster_LatestUser(d, cluster) ==
    LET users == {k \in 1..Len(cluster) : classifyMessage(d, cluster[k]) = "user"}
        assistants == {k \in 1..Len(cluster) : classifyMessage(d, cluster[k]) = "assistant"}
    IN  IF Len(cluster) < 2 \/ users = {} \/ assistants = {} THEN <<>>
        ELSE LET a == CHOOSE k \in assistants : \A j \in assistants : k <= j
                 before == {k \in users : k < a}
                 u == IF before = {} THEN CHOOSE k \in users : \A j \in users : k <= j
                      ELSE CHOOSE k \in before : \A j \in before : j <= k
             IN  <<createConversationRound(d, (u - 1) + (a - 1), cluster[u], cluster[a])>>

\* <<>> stands for null; otherwise a one-element sequence holding the round
processMessageCluster(d, cluster) ==
    LET users == {k \in 1..Len(cluster) : classifyMessage(d, cluster[k]) = "user"}
        assistants == {k \in 1..Len(cluster) : classifyMessage(d, cluster[k]) = "assistant"}
    IN  IF Len(cluster) < 2 \/ users = {} \/ assistants = {} THEN <<>>
        ELSE LET u == CHOOSE k \in users : \A j \in users : k <= j
                 a == CHOOSE k \in assistants : \A j \in assistants : k <= j
             IN  <<createConversationRound(d, (u - 1) + (a - 1), cluster[u], cluster[a])>>

RECURSIVE RoundsOfClusters(_, _)
RoundsOfClusters(d, cs) ==
    IF cs = <<>> THEN <<>>
    ELSE processMessageCluster(d, Head(cs)) \o RoundsOfClusters(d, Tail(cs))

\* a plausible slip: the test of line 129 is left out and an empty list of
\* rounds is returned as it is
RoundsOrFallback_Never(d, rounds) == rounds

\* lines 119-132: the rounds of the clusters, or the fallback when there
\* are none
RoundsOrFallback(d, rounds) ==
    IF Len(rounds) = 0 THEN fallbackToSequentialPairing(d) ELSE rounds

extractUsingStructureAnalysis(d) ==
    RoundsOrFallback(d, RoundsOfClusters(d, findMessageClusters(d)))

(***************************************************************************)
(* Results.  pg is the rest of the page: [hook, fiber, visual, url, title] *)
(* and t the clock.  A mean is kept as the rational [num, den].            *)
(***************************************************************************)
RECURSIVE SumConfidence(_)
SumConfidence(conv) ==
    IF conv = <<>> THEN 0
    ELSE Head(conv).metadata.extractionConfidence + SumConfidence(Tail(conv))

\* document.querySelectorAll('*').length
domElementCount(d) == Len(d) + Len(ContainerPath)

createExtractedConversation(conv, strategyUsed, pg, d, t) ==
    [version     |-> "1.0",
     metadata    |-> [sourceUrl       |-> pg.url,
                      extractedAt     |-> t,
                      strategyUsed    |-> strategyUsed,
                      confidenceScore |-> IF Len(conv) > 0
                                          THEN [num |-> SumConfidence(conv), den |-> Len(conv)]
                                          ELSE [num |-> 0, den |-> 1],
                      pageInfo        |-> [title |-> pg.title]],
     conversation |-> conv,
     extractionStats |-> [totalRounds         |-> Len(conv),
                          successRate         |-> IF Len(conv) > 0 THEN 100 ELSE 0,
                          processingTimeMs    |-> 0,
                          domElementsAnalyzed |-> domElementCount(d)]]

Threw(e) == [threw |-> TRUE, error |-> e]
Returned(r) == [threw |-> FALSE, result |-> r]

(***************************************************************************)
(* BaseStrategy.findConversationContainer.  The document is                *)
(* html > body > main.chat > dom: main.chat is the first element any       *)
(* selector matches, and a node below it qualifies only if it does.        *)
(***************************************************************************)
isConversationContainer(d) ==
    LET marked(kws) == {n \in 1..Len(d) : \E kw \in kws : ClassIncludes(d, n, kw)}
        hasUserMessages == marked({"user", "question"}) # {}
        hasAssistantMessages == marked({"assistant", "answer", "response"}) # {}
        hasMultipleMessages == Cardinality(marked({"message", "bubble"})) >= 2
    IN  (hasUserMessages /\ hasAssistantMessages) \/ hasMultipleMessages

findConversationContainer(d) == isConversationContainer(d)

(***************************************************************************)
(* StructureStrategy.execute                                               *)
(***************************************************************************)
StructureExecute(d, pg, t) ==
    IF ~findConversationContainer(d) THEN Threw("NoContainerFound")
    ELSE Returned(createExtractedConversation(extractUsingStructureAnalysis(d),
                                              "structure-analysis", pg, d, t))

(***************************************************************************)
(* ReactStrategy.  A retained tree is a sequence of fiber nodes            *)
(*   [type, props, child, sibling], node 1 the one findReactRoot returns;  *)
(*   type  = [kind : "none" | "host" | "component", name]                  *)
(*   props = [keys, role, content], role "none" when the prop is absent,   *)
(*   content = props.children || props.content as [chars, code, heading]   *)
(*   (the text it parses to, and whether its markup holds code / a heading)*)
(***************************************************************************)
NoFiber == <<>>
NoContent == [chars |-> <<>>, code |-> FALSE, heading |-> FALSE]

\* substrings of a type name or prop key, lower-cased
NameHas(name) ==
    CASE name = "UserMessage"   -> {"user", "message"}
      [] name = "ChatBubble"    -> {"chat", "bubble"}
      [] name = "message"       -> {"message"}
      [] name = "role"          -> {"role"}
      [] name = "user-row"      -> {"user"}
      [] name = "chatId"        -> {"chat"}
      [] OTHER                  -> {}

\* substrings of a type name as written (String.prototype.includes is
\* case-sensitive)
NameHasRaw(name) ==
    CASE name = "UserMessage"   -> {}
      [] OTHER                  -> NameHas(name)

isMessageComponent(type, props) ==
    IF type.kind = "none" THEN FALSE
    ELSE \/ "message" \in NameHas(type.name)
         \/ "chat" \in NameHas(type.name)
         \/ "bubble" \in NameHas(type.name)
         \/ \E key \in props.keys : "message" \in NameHas(key)
         \/ \E key \in props.keys : "role" \in NameHas(key)
         \/ props.role \in {"user", "assistant"}

detectRoleFromComponent(type, props) ==
    IF props.role \notin {"none", ""} THEN (IF props.role = "user" THEN "user" ELSE "assistant")
    ELSE LET has == IF type.kind = "host" THEN NameHasRaw(type.name) ELSE NameHas(type.name)
         IN  IF "user" \in has \/ "human" \in has THEN "user" ELSE "assistant"

\* traverse(node): the node, then its child, then its sibling
RECURSIVE traverse(_, _)
traverse(f, n) ==
    IF n = 0 THEN <<>>
    ELSE (IF isMessageComponent(f[n].type, f[n].props)
          THEN <<[role    |-> detectRoleFromComponent(f[n].type, f[n].props),
                  content |-> f[n].props.content,
                  node    |-> n]>>
          ELSE <<>>)
         \o traverse(f, f[n].child) \o traverse(f, f[n].sibling)

extractReactFiberData(f) == [messages |-> traverse(f, 1)]

\* null when the hook is absent or no framework reference is found
tryGetReactData(pg) ==
    IF pg.hook /\ pg.fiber # NoFiber
    THEN [null |-> FALSE, messages |-> extractReactFiberData(pg.fiber).messages]
    ELSE [null |-> TRUE, messages |-> <<>>]

\* a slip: the confidence of the DOM fallback path for probe rounds
ReactRound_DomConfidence(index, um, am) ==
    [index     |-> index,
     user      |-> [role |-> "user", text |-> Trim(um.content.chars), src |-> um.node],
     assistant |-> [role |-> "assistant", text |-> Trim(am.content.chars), src |-> am.node,
                    formatAnalysis |-> [hasCodeBlocks |-> am.content.code,
                                        hasHeadings   |-> am.content.heading]],
     metadata  |-> [extractionConfidence |-> DomBase, elementCount |-> 2]]

ReactRound(index, um, am) ==
    [index     |-> index,
     user      |-> [role |-> "user", text |-> Trim(um.content.chars), src |-> um.node],
     assistant |-> [role |-> "assistant", text |-> Trim(am.content.chars), src |-> am.node,
                    formatAnalysis |-> [hasCodeBlocks |-> am.content.code,
                                        hasHeadings   |-> am.content.heading]],
     metadata  |-> [extractionConfidence |-> ProbeConfidence, elementCount |-> 2]]

\* a slip: the remembered user is not cleared when a round is emitted
ProbeStep_KeepUser(msgs, st, k) ==
    IF msgs[k].role = "user"
    THEN [st EXCEPT !.userMessage = k]
    ELSE IF msgs[k].role = "assistant" /\ st.userMessage # 0
    THEN [st EXCEPT !.conversation = Append(st.conversation,
                  ReactRound(Len(st.conversation) + 1, msgs[st.userMessage], msgs[k]))]
    ELSE st

\* one call of the forEach callback (lines 697-709) on record k;
\* st = [userMessage, conversation], userMessage = 0 for null, else the
\* position of the remembered record
ProbeStep(msgs, st, k) ==
    IF msgs[k].role = "user"
    THEN [st EXCEPT !.userMessage = k]
    ELSE IF msgs[k].role = "assistant" /\ st.userMessage # 0
    THEN [userMessage  |-> 0,
          conversation |-> Append(st.conversation,
              ReactRound(Len(st.conversation) + 1, msgs[st.userMessage], msgs[k]))]
    ELSE st

RECURSIVE PairRecords(_, _, _)
PairRecords(msgs, st, k) ==
    IF k > Len(msgs) THEN st.conversation
    ELSE PairRecords(msgs, ProbeStep(msgs, st, k), k + 1)

extractFromReactData(reactData, pg, d, t) ==
    createExtractedConversation(
        PairRecords(reactData.messages, [userMessage |-> 0, conversation |-> <<>>], 1),
        "react-strategy", pg, d, t)

\* lower-cased alphabetic words of a class token
TokenWords(tok) ==
    CASE tok = "user-question" -> {"user", "question"}
      [] tok = "ai-answer"     -> {"ai", "answer"}
      [] OTHER                 -> {tok}

ClassWords(d, n) == UNION {TokenWords(d[n].cls[k]) : k \in 1..Len(d[n].cls)}

calculateConfidence(d, u, a) ==
    LET c1 == IF d[a].top > d[u].bottom THEN DomBase + DomPosBonus ELSE DomBase
        c2 == IF d[u].cls # <<>> /\ d[a].cls # <<>> /\ ClassWords(d, u) \cap ClassWords(d, a) # {}
              THEN c1 + DomClassBonus ELSE c1
    IN  Min(c2, ConfCap)

\* analyzeFormat(outerHTML) of ReactStrategy: regular expressions only
analyzeFormatHtml(d, n) ==
    LET all == {n} \cup Descendants(d, n)
    IN  [hasCodeBlocks |-> \/ \E k \in all : IsCodeTag(d[k].tag) /\ d[k].cls = <<>>
                           \/ TextIncludes(d, n, "fence"),
         hasHeadings   |-> \E k \in all : IsHeadingTag(d[k].tag)]

createConversationRoundFromElements(d, index, u, a) ==
    [index     |-> index,
     user      |-> [role |-> "user", text |-> Trim(TextContent(d, u)), src |-> u],
     assistant |-> [role |-> "assistant", text |-> Trim(TextContent(d, a)), src |-> a,
                    formatAnalysis |-> analyzeFormatHtml(d, a)],
     metadata  |-> [extractionConfidence |-> calculateConfidence(d, u, a),
                    elementCount |-> 2]]

RECURSIVE PairDom(_, _, _, _)
PairDom(d, els, st, k) ==
    IF k > Len(els) THEN st.conversation
    ELSE LET role == classifyMessage(d, els[k])
         IN  IF role = "user"
             THEN PairDom(d, els, [st EXCEPT !.userMessage = els[k]], k + 1)
             ELSE IF role = "assistant" /\ st.userMessage # 0
             THEN PairDom(d, els,
                      [userMessage  |-> 0,
                       conversation |-> Append(st.conversation,
                           createConversationRoundFromElements(d, Len(st.conversation) + 1,
                                                               st.userMessage, els[k]))],
                      k + 1)
             ELSE PairDom(d, els, st, k + 1)

extractFromDOM(d, pg, t) ==
    createExtractedConversation(
        PairDom(d, extractMessageElements(d), [userMessage |-> 0, conversation |-> <<>>], 1),
        "dom-fallback", pg, d, t)

\* reactData && reactData.messages: an empty array is truthy
ReactExecute(d, pg, t) ==
    IF ~findConversationContainer(d) THEN Threw("NoContainerFound")
    ELSE LET reactData == tryGetReactData(pg)
         IN  IF ~reactData.null
             THEN Returned(extractFromReactData(reactData, pg, d, t))
             ELSE Returned(extractFromDOM(d, pg, t))

(***************************************************************************)
(* VisualStrategy: only its contract is known (execute() returns an        *)
(* ExtractedConversation or fails; no container is a hard stop).  What it  *)
(* does on a page is an input, pg.visual = [throws, conversation].         *)
(***************************************************************************)
VisualExecute(d, pg, t) ==
    IF ~findConversationContainer(d) THEN Threw("NoContainerFound")
    ELSE IF pg.visual.throws THEN Threw("StrategyFailed")
    ELSE Returned(createExtractedConversation(pg.visual.conversation,
                                              "visual-layout", pg, d, t))

(***************************************************************************)
(* DOMIntelligentAnalyzer                                                  *)
(***************************************************************************)
Strategies == <<"ReactStrategy", "StructureStrategy", "VisualStrategy">>

Execute(name, d, pg, t) ==
    CASE name = "ReactStrategy"     -> ReactExecute(d, pg, t)
      [] name = "StructureStrategy" -> StructureExecute(d, pg, t)
      [] name = "VisualStrategy"    -> VisualExecute(d, pg, t)

\* a score: [throws, nan, num, den]; num/den is the number, nan the NaN of
\* 0/0, throws a TypeError raised while reading a round.  The sum
\* roundsTerm + avgConfidence * 40 + bonus is kept over the denominator
\* (ConfScale / 40) * n
NumberScore(n, dn) == [throws |-> FALSE, nan |-> FALSE, num |-> n, den |-> dn]
NaNScore == [throws |-> FALSE, nan |-> TRUE, num |-> 0, den |-> 1]
ThrowsScore == [throws |-> TRUE, nan |-> FALSE, num |-> 0, den |-> 1]

\* a slip: score -= avgConfidence * 40
evaluateExtraction_Minus(result) ==
    LET conv == result.conversation
        n == Len(conv)
        roundsTerm == IF n > 0 THEN Min(n * 10, 30) ELSE 0
        wellFormed == \A k \in 1..n : "formatAnalysis" \in DOMAIN conv[k].assistant
        hasCodeBlocks == \E k \in 1..n : conv[k].assistant.formatAnalysis.hasCodeBlocks
        hasHeadings == \E k \in 1..n : conv[k].assistant.formatAnalysis.hasHeadings
        bonus == (IF hasCodeBlocks THEN 15 ELSE 0) + (IF hasHeadings THEN 15 ELSE 0)
    IN  IF ~wellFormed THEN ThrowsScore
        ELSE IF n = 0 THEN NaNScore
        ELSE NumberScore((roundsTerm + bonus) * (ConfScale \div 40) * n - SumConfidence(conv),
                         (ConfScale \div 40) * n)

evaluateExtraction(result) ==
    LET conv == result.conversation
        n == Len(conv)
        roundsTerm == IF n > 0 THEN Min(n * 10, 30) ELSE 0
        wellFormed == \A k \in 1..n : "formatAnalysis" \in DOMAIN conv[k].assistant
        hasCodeBlocks == \E k \in 1..n : conv[k].assistant.formatAnalysis.hasCodeBlocks
        hasHeadings == \E k \in 1..n : conv[k].assistant.formatAnalysis.hasHeadings
        bonus == (IF hasCodeBlocks THEN 15 ELSE 0) + (IF hasHeadings THEN 15 ELSE 0)
    IN  IF ~wellFormed THEN ThrowsScore
        ELSE IF n = 0 THEN NaNScore
        ELSE NumberScore((roundsTerm + bonus) * (ConfScale \div 40) * n + SumConfidence(conv),
                         (ConfScale \div 40) * n)

\* a slip: score >= bestScore, so that a later equal score replaces the kept
\* result
GreaterThan_OrEqual(a, b) ==
    /\ ~a.nan
    /\ ~b.nan
    /\ a.num * b.den >= b.num * a.den

\* a slip: the test written as !(score <= bestScore), which NaN passes
GreaterThan_NotLessEqual(a, b) ==
    ~(/\ ~a.nan
      /\ ~b.nan
      /\ a.num * b.den <= b.num * a.den)

\* score > bestScore on numbers; any comparison with NaN is false
GreaterThan(a, b) ==
    /\ ~a.nan
    /\ ~b.nan
    /\ a.num * b.den > b.num * a.den

\* a slip: || for &&, a round is kept when one of its texts is non-empty
validateAndEnhance_Or(result, pg, d, t) ==
    LET conv == result.conversation
        keep == {k \in 1..Len(conv) :
                    Len(Trim(conv[k].user.text)) > 0 \/ Len(Trim(conv[k].assistant.text)) > 0}
        kept == SelectIdx(conv, keep, 1)
    IN  [result EXCEPT
            !.conversation = kept,
            !.extractionStats.totalRounds = Len(kept),
            !.extractionStats.successRate = IF Len(kept) > 0 THEN 100 ELSE 0,
            !.extractionStats.domElementsAnalyzed = domElementCount(d),
            !.metadata.extractedAt = t,
            !.metadata.sourceUrl = pg.url,
            !.metadata.pageInfo = [title |-> pg.title]]

\* a plausible slip: the statistics of lines 110-111 are not recomputed
validateAndEnhance_StaleStats(result, pg, d, t) ==
    LET conv == result.conversation
        keep == {k \in 1..Len(conv) :
                    Len(Trim(conv[k].user.text)) > 0 /\ Len(Trim(conv[k].assistant.text)) > 0}
        kept == SelectIdx(conv, keep, 1)
    IN  [result EXCEPT
            !.conversation = kept,
            !.extractionStats.domElementsAnalyzed = domElementCount(d),
            !.metadata.extractedAt = t,
            !.metadata.sourceUrl = pg.url,
            !.metadata.pageInfo = [title |-> pg.title]]

\* a slip: totalRounds += instead of =
validateAndEnhance_Accumulate(result, pg, d, t) ==
    LET conv == result.conversation
        keep == {k \in 1..Len(conv) :
                    Len(Trim(conv[k].user.text)) > 0 /\ Len(Trim(conv[k].assistant.text)) > 0}
        kept == SelectIdx(conv, keep, 1)
    IN  [result EXCEPT
            !.conversation = kept,
            !.extractionStats.totalRounds = @ + Len(kept),
            !.extractionStats.successRate = IF Len(kept) > 0 THEN 100 ELSE 0,
            !.extractionStats.domElementsAnalyzed = domElementCount(d),
            !.metadata.extractedAt = t,
            !.metadata.sourceUrl = pg.url,
            !.metadata.pageInfo = [title |-> pg.title]]

validateAndEnhance(result, pg, d, t) ==
    LET conv == result.conversation
        keep == {k \in 1..Len(conv) :
                    Len(Trim(conv[k].user.text)) > 0 /\ Len(Trim(conv[k].assistant.text)) > 0}
        kept == SelectIdx(conv, keep, 1)
    IN  [result EXCEPT
            !.conversation = kept,
            !.extractionStats.totalRounds = Len(kept),
            !.extractionStats.successRate = IF Len(kept) > 0 THEN 100 ELSE 0,
            !.extractionStats.domElementsAnalyzed = domElementCount(d),
            !.metadata.extractedAt = t,
            !.metadata.sourceUrl = pg.url,
            !.metadata.pageInfo = [title |-> pg.title]]

(***************************************************************************)
(* Pages                                                                   *)
(***************************************************************************)
StyleA == [p \in 1..NumStyleProps |-> 0]
StyleB == [p \in 1..NumStyleProps |-> IF p <= 7 THEN 1 ELSE 0]

Text12 == Rep("x", 12)

Node(tag, cls, own, kw, style) ==
    [parent |-> 0, tag |-> tag, cls |-> cls, own |-> own, kw |-> kw,
     top |-> 0, bottom |-> 0, style |-> style]

UserNode      == Node("div", <<"message", "user">>, Text12, {}, StyleA)
AssistantNode == Node("div", <<"message", "assistant">>, Text12, {}, StyleB)
NoiseNode     == Node("div", <<"message">>, Text12, {}, StyleA)
TinyNode      == Node("span", <<"message">>, Rep("x", 3), {}, StyleA)

\* boxes stacked in document order, 100 apart and 50 high
LayOut(d) == [k \in 1..Len(d) |-> [d[k] EXCEPT !.top = 100 * k, !.bottom = 100 * k + 50]]

NoPage == [hook |-> FALSE, fiber |-> NoFiber,
           visual |-> [throws |-> TRUE, conversation |-> <<>>],
           url |-> "url1", title |-> "title1"]

NoOutcome == [status |-> "none", error |-> "", value |-> <<>>]

\* an element without text, and one with as many user cues as assistant cues
EmptyNode     == Node("div", <<"message", "assistant">>, <<>>, {}, StyleA)
TieNode       == Node("div", <<"message", "user", "assistant">>, Text12, {}, StyleA)

PairKinds == {UserNode, AssistantNode, NoiseNode, TinyNode}
EdgeKinds == {EmptyNode, TieNode}

\* long lists of the four plain kinds, short lists of all six
PairDoms ==
    {LayOut(s) : s \in UNION {[1..n -> PairKinds] : n \in 0..MaxElems}
                      \cup UNION {[1..n -> PairKinds \cup EdgeKinds] : n \in 0..MaxEdgeElems}}

(***************************************************************************)
(* SpecPair: fallbackToSequentialPairing run step by step over a container *)
(* of flat children                                                        *)
(***************************************************************************)
InitPair ==
    /\ dom \in PairDoms
    /\ pc = "start"
    /\ elements = <<>>
    /\ i = 1
    /\ userElement = 0
    /\ conversation = <<>>
    /\ page = NoPage
    /\ now = 0
    /\ sIdx = 1
    /\ bestResult = <<>>
    /\ bestScore = NumberScore(0, 1)
    /\ log = <<>>
    /\ outcome = NoOutcome
    /\ messages = <<>>
    /\ userMessage = 0
    /\ clusterCandidates = <<>>
    /\ clusters = <<>>
    /\ processed = {}
    /\ requests = <<>>

PairStart ==
    /\ pc = "start"
    /\ elements' = extractMessageElements(dom)
    /\ conversation' = <<>>
    /\ userElement' = 0
    /\ i' = 1
    /\ pc' = "loop"
    /\ UNCHANGED <<requests, dom, page, now>>
    /\ UNCHANGED analyzeLocals
    /\ UNCHANGED <<probeLocals, clusterLocals>>

PairIterate ==
    /\ pc = "loop"
    /\ i <= Len(elements)
    /\ LET st == PairStep(dom, elements,
                          [userElement |-> userElement, conversation |-> conversation], i)
       IN  /\ userElement' = st.userElement
           /\ conversation' = st.conversation
    /\ i' = i + 1
    /\ UNCHANGED <<requests, dom, page, now, pc, elements>>
    /\ UNCHANGED analyzeLocals
    /\ UNCHANGED <<probeLocals, clusterLocals>>

PairReturn ==
    /\ pc = "loop"
    /\ i > Len(elements)
    /\ pc' = "done"
    /\ UNCHANGED <<requests, dom, page, now>>
    /\ UNCHANGED pairLocals
    /\ UNCHANGED analyzeLocals
    /\ UNCHANGED <<probeLocals, clusterLocals>>

NextPair == PairStart \/ PairIterate \/ PairReturn

SpecPair == InitPair /\ [][NextPair]_vars

(***************************************************************************)
(* Claims on sequential fallback pairing                                   *)
(***************************************************************************)
UserIndexOf(r) == IndexOf(elements, r.user.src)
AssistantIndexOf(r) == IndexOf(elements, r.assistant.src)

NoCues(d, n) == Count(userIndicators(d, n)) = 0 /\ Count(aiIndicators(d, n)) = 0

\* the filtered list is one classified user with a user cue, `gap - 1` nodes
\* without any cue, and one classified assistant
IsGapScenario(gap) ==
    /\ Len(elements) = gap + 1
    /\ classifyMessage(dom, elements[1]) = "user"
    /\ Count(userIndicators(dom, elements[1])) > 0
    /\ \A k \in 2..gap : NoCues(dom, elements[k])
    /\ classifyMessage(dom, elements[gap + 1]) = "assistant"

\* C8: every round emitted by sequential fallback pairing has
\* assistantIndex - userIndex <= 3, both indexes being positions in the
\* filtered element list
C8_GapAtMostThree ==
    pc \in {"loop", "done"} =>
        \A k \in 1..Len(conversation) :
            /\ UserIndexOf(conversation[k]) >= 1
            /\ AssistantIndexOf(conversation[k]) - UserIndexOf(conversation[k]) <= 3

C8_Witness ==
    /\ pc = "done"
    /\ Len(elements) >= 4
    /\ Len(conversation) >= 1

\* C9 (Scenario D): [user, noise, noise, noise, assistant] emits zero rounds
C9_ScenarioD_ZeroRounds ==
    (pc = "done" /\ IsGapScenario(4)) => Len(conversation) = 0

\* C10 (Scenario E): [user, noise, noise, assistant] emits exactly one round,
\* pairing the element at index 0 with the element at index 3
C10_ScenarioE_PairsEnds ==
    (pc = "done" /\ IsGapScenario(3)) =>
        /\ Len(conversation) = 1
        /\ conversation[1].user.src = elements[1]
        /\ conversation[1].assistant.src = elements[4]

HasMessageKeyword(d, n) ==
    \/ HtmlIncludes(d, n, "message")
    \/ HtmlIncludes(d, n, "bubble")
    \/ HtmlIncludes(d, n, "chat")

\* C18: every node the Candidate Filter returns has trimmed text of length
\* >= 10 and markup or class text with a message-ish keyword; a node whose
\* text content is empty is never returned
C18_FilteredHaveTextAndKeyword ==
    pc \in {"loop", "done"} =>
        \A k \in 1..Len(elements) :
            /\ TextContent(dom, elements[k]) # <<>>
            /\ Len(Trim(TextContent(dom, elements[k]))) >= MinFilterText
            /\ HasMessageKeyword(dom, elements[k])

UserCues(n) == Count(userIndicators(dom, n))
AssistantCues(n) == Count(aiIndicators(dom, n))

\* C19: classifyMessage is total and returns 'user' exactly when the user
\* cues are at least as many as the assistant cues: a node with equal
\* counts, also one without any cue, is 'user'; 'assistant' is returned
\* only when the assistant cues strictly outnumber the user cues
C19_ClassifyTiesFavourUser ==
    \A n \in 1..Len(dom) :
        \E role \in {classifyMessage(dom, n)}, u \in {UserCues(n)}, a \in {AssistantCues(n)} :
            /\ role \in {"user", "assistant"}
            /\ role = "user" <=> u >= a
            /\ role = "assistant" <=> a > u
            /\ u = a => role = "user"

\* pairing has run over a list with a tie of two cues each, a node without
\* cues and a node with more assistant cues, and the tie was remembered as
\* the user of a round
C19_Witness ==
    /\ pc = "done"
    /\ \E n \in 1..Len(dom) : UserCues(n) = 2 /\ AssistantCues(n) = 2
    /\ \E n \in 1..Len(dom) : NoCues(dom, n) /\ classifyMessage(dom, n) = "user"
    /\ \E n \in 1..Len(dom) : AssistantCues(n) > UserCues(n)
    /\ \E k \in 1..Len(conversation) :
           UserCues(conversation[k].user.src) = AssistantCues(conversation[k].user.src)

(***************************************************************************)
(* Pages for analyze(): a container holding a sequence of blocks, a block  *)
(* being a message node alone or a wrapper with one paragraph              *)
(***************************************************************************)
StyleC == [p \in 1..NumStyleProps |-> 2]
Text25 == Rep("x", 25)

Child(n, parent) == [n EXCEPT !.parent = parent]

BUser == <<Node("div", <<"message", "user">>, <<>>, {}, StyleA),
           Child(Node("p", <<>>, Text25, {}, StyleA), 1)>>
BAssistant == <<Node("div", <<"message", "assistant">>, <<>>, {}, StyleC),
                Child(Node("p", <<>>, Text25, {}, StyleA), 1)>>
FUser == <<UserNode>>
FAssistant == <<AssistantNode>>
FEmptyAssistant == <<Node("div", <<"message", "assistant">>, <<>>, {}, StyleA)>>
FCodeAssistant == <<Node("div", <<"message", "assistant">>, Text12, {"fence"}, StyleB)>>

OrchBlocks == {BUser, BAssistant, FUser, FAssistant, FEmptyAssistant, FCodeAssistant}

\* the nodes of the blocks in document order, parents renumbered
RECURSIVE Flatten(_, _)
Flatten(blocks, offset) ==
    IF blocks = <<>> THEN <<>>
    ELSE LET b == Head(blocks)
             shifted == [k \in 1..Len(b) |->
                            IF b[k].parent = 0 THEN b[k]
                            ELSE [b[k] EXCEPT !.parent = b[k].parent + offset]]
         IN  shifted \o Flatten(Tail(blocks), offset + Len(b))

OrchDoms ==
    {LayOut(Flatten(bs, 0)) : bs \in UNION {[1..n -> OrchBlocks] : n \in 0..MaxBlocks}}

Content(chars) == [chars |-> chars, code |-> FALSE, heading |-> FALSE]
Props(keys, role, content) == [keys |-> keys, role |-> role, content |-> content]
Fiber(kind, name, props, child, sibling) ==
    [type |-> [kind |-> kind, name |-> name], props |-> props,
     child |-> child, sibling |-> sibling]

\* a root whose children are message components with a role prop
FiberOf(roles, contents) ==
    <<Fiber("component", "App", Props({}, "none", NoContent), IF Len(roles) > 0 THEN 2 ELSE 0, 0)>>
    \o [k \in 1..Len(roles) |->
            Fiber("component", "UserMessage", Props({"role", "children"}, roles[k], contents[k]),
                  0, IF k < Len(roles) THEN k + 2 ELSE 0)]

FiberUA == FiberOf(<<"user", "assistant">>, <<Content(Text12), Content(Text12)>>)
FiberUAUB == FiberOf(<<"user", "assistant", "user", "assistant">>,
                     <<Content(Text12), Content(Text12), Content(Text12), Content(<<" ", " ">>)>>)
\* what a __reactProps$ key yields: an object without type, child or sibling
FiberPropsOnly == <<Fiber("none", "", Props({}, "none", NoContent), 0, 0)>>

Probes == {[hook |-> FALSE, fiber |-> NoFiber],
           [hook |-> FALSE, fiber |-> FiberUA],
           [hook |-> TRUE, fiber |-> NoFiber],
           [hook |-> TRUE, fiber |-> FiberUA],
           [hook |-> TRUE, fiber |-> FiberUAUB],
           [hook |-> TRUE, fiber |-> FiberPropsOnly]}

VisualRound(index, conf, utext, atext, heading) ==
    [index     |-> index,
     user      |-> [role |-> "user", text |-> utext, src |-> 0],
     assistant |-> [role |-> "assistant", text |-> atext, src |-> 0,
                    formatAnalysis |-> [hasCodeBlocks |-> FALSE, hasHeadings |-> heading]],
     metadata  |-> [extractionConfidence |-> conf, elementCount |-> 2]]

\* a round without formatAnalysis: reading it makes evaluateExtraction throw
MalformedRound ==
    [index     |-> 1,
     user      |-> [role |-> "user", text |-> Text12, src |-> 0],
     assistant |-> [role |-> "assistant", text |-> Text12, src |-> 0],
     metadata  |-> [extractionConfidence |-> ConfCap, elementCount |-> 2]]

Visuals == {[throws |-> TRUE, conversation |-> <<>>],
            [throws |-> FALSE, conversation |-> <<>>],
            [throws |-> FALSE, conversation |-> <<VisualRound(1, ProbeConfidence, Text12, Text12, FALSE)>>],
            [throws |-> FALSE, conversation |-> <<VisualRound(1, ConfCap, <<" ">>, Text12, TRUE),
                                                 VisualRound(2, StructBase, Text12, Text12, FALSE)>>],
            [throws |-> FALSE, conversation |-> <<MalformedRound>>]}

Pages == {[hook |-> pr.hook, fiber |-> pr.fiber, visual |-> v,
           url |-> "url1", title |-> "title1"] : pr \in Probes, v \in Visuals}

(***************************************************************************)
(* Spec: one analyze() call                                                *)
(***************************************************************************)
LogEntry(name, out, score, kept) ==
    [strategy |-> name,
     threw    |-> out.threw,
     error    |-> IF out.threw THEN out.error ELSE "",
     result   |-> IF out.threw THEN <<>> ELSE <<out.result>>,
     score    |-> score,
     kept     |-> kept]

\* the same without the try/catch: the error of execute() or of
\* evaluateExtraction leaves analyze()
LoopScored_NoCatch(st, name, out, score) ==
    IF out.threw \/ score.throws
    THEN [st EXCEPT !.escaped = IF out.threw THEN out.error ELSE "TypeError",
                    !.log = Append(st.log, LogEntry(name, out, score, FALSE))]
    ELSE IF GreaterThan(score, st.bestScore)
    THEN [st EXCEPT !.bestScore = score, !.bestResult = <<out.result>>,
                    !.log = Append(st.log, LogEntry(name, out, score, TRUE))]
    ELSE [st EXCEPT !.log = Append(st.log, LogEntry(name, out, score, FALSE))]

\* a plausible slip: a strategy that failed is run a second time, and fails
\* again
LoopScored_Retry(st, name, out, score) ==
    IF out.threw \/ score.throws
    THEN [st EXCEPT !.log = Append(Append(st.log, LogEntry(name, out, score, FALSE)),
                                   LogEntry(name, out, score, FALSE))]
    ELSE IF GreaterThan(score, st.bestScore)
    THEN [st EXCEPT !.bestScore = score, !.bestResult = <<out.result>>,
                    !.log = Append(st.log, LogEntry(name, out, score, TRUE))]
    ELSE [st EXCEPT !.log = Append(st.log, LogEntry(name, out, score, FALSE))]

\* the try statement (lines 39-51) once execute() ended with out and
\* evaluateExtraction with score; st = [bestResult, bestScore, log, escaped],
\* escaped = the error that leaves the try statement, "" if none
LoopScored(st, name, out, score) ==
    IF out.threw \/ score.throws
    THEN [st EXCEPT !.log = Append(st.log, LogEntry(name, out, score, FALSE))]
    ELSE IF GreaterThan(score, st.bestScore)
    THEN [st EXCEPT !.bestScore = score, !.bestResult = <<out.result>>,
                    !.log = Append(st.log, LogEntry(name, out, score, TRUE))]
    ELSE [st EXCEPT !.log = Append(st.log, LogEntry(name, out, score, FALSE))]

\* line 42 is not reached when execute() threw
ScoreOf(out) == IF out.threw THEN ThrowsScore ELSE evaluateExtraction(out.result)

LoopExecuted(st, name, out) == LoopScored(st, name, out, ScoreOf(out))

\* the body of the for loop (lines 39-51)
LoopBody(st, name, d, pg, t) == LoopExecuted(st, name, Execute(name, d, pg, t))

Init ==
    /\ dom \in OrchDoms
    /\ page \in Pages
    /\ now = 0
    /\ pc = "idle"
    /\ elements = <<>>
    /\ i = 1
    /\ userElement = 0
    /\ conversation = <<>>
    /\ sIdx = 1
    /\ bestResult = <<>>
    /\ bestScore = NumberScore(0, 1)
    /\ log = <<>>
    /\ outcome = NoOutcome
    /\ messages = <<>>
    /\ userMessage = 0
    /\ clusterCandidates = <<>>
    /\ clusters = <<>>
    /\ processed = {}
    /\ requests = <<>>

AnalyzeStart ==
    /\ pc = "idle"
    /\ pc' = "loop"
    /\ sIdx' = 1
    /\ bestResult' = <<>>
    /\ bestScore' = NumberScore(0, 1)
    /\ log' = <<>>
    /\ outcome' = NoOutcome
    /\ UNCHANGED <<requests, dom, page, now>>
    /\ UNCHANGED pairLocals
    /\ UNCHANGED <<probeLocals, clusterLocals>>

TryStrategy ==
    /\ pc = "loop"
    /\ sIdx <= Len(Strategies)
    /\ \E st \in {LoopBody([bestResult |-> bestResult, bestScore |-> bestScore,
                            log |-> log, escaped |-> ""],
                           Strategies[sIdx], dom, page, now)} :
           /\ bestResult' = st.bestResult
           /\ bestScore' = st.bestScore
           /\ log' = st.log
           /\ IF st.escaped # ""
              THEN /\ pc' = "threw"
                   /\ outcome' = [status |-> "threw", error |-> st.escaped, value |-> <<>>]
              ELSE /\ pc' = pc
                   /\ outcome' = outcome
    /\ sIdx' = sIdx + 1
    /\ now' = now + 1
    /\ UNCHANGED <<requests, dom, page>>
    /\ UNCHANGED pairLocals
    /\ UNCHANGED <<probeLocals, clusterLocals>>

\* the error of line 55; the specification calls it NoUsableResult
AnalyzeFail ==
    /\ pc = "loop"
    /\ sIdx > Len(Strategies)
    /\ bestResult = <<>>
    /\ pc' = "threw"
    /\ outcome' = [status |-> "threw", error |-> "NoUsableResult", value |-> <<>>]
    /\ UNCHANGED <<requests, dom, page, now, sIdx, bestResult, bestScore, log>>
    /\ UNCHANGED pairLocals
    /\ UNCHANGED <<probeLocals, clusterLocals>>

\* lines 59-65; startTime is 0
AnalyzeFinish ==
    /\ pc = "loop"
    /\ sIdx > Len(Strategies)
    /\ bestResult # <<>>
    /\ LET validated == validateAndEnhance(bestResult[1], page, dom, now)
           final == [validated EXCEPT !.extractionStats.processingTimeMs = now - 0]
       IN  /\ bestResult' = <<final>>
           /\ outcome' = [status |-> "returned", error |-> "", value |-> <<final>>]
    /\ pc' = "done"
    /\ UNCHANGED <<requests, dom, page, now, sIdx, bestScore, log>>
    /\ UNCHANGED pairLocals
    /\ UNCHANGED <<probeLocals, clusterLocals>>

Next == AnalyzeStart \/ TryStrategy \/ AnalyzeFail \/ AnalyzeFinish

Spec == Init /\ [][Next]_vars

(***************************************************************************)
(* Claims on analyze()                                                     *)
(***************************************************************************)
Finished == pc \in {"done", "threw"}
LoopDone == pc = "loop" /\ sIdx > Len(Strategies)

\* the strategy of entry e failed: execute() threw or scoring its result threw
Failed(e) == e.threw \/ e.score.throws
RoundsOf(e) == e.result[1].conversation
IsNumber(sc) == ~sc.throws /\ ~sc.nan

\* C1: no exception of a strategy's execute() or of scoring its result
\* escapes analyze(): every strategy is run whatever the earlier ones did,
\* analyze() throws only its own terminal error, and it throws it when every
\* strategy failed, in particular when no container is located and every
\* execute() throws before extracting anything
C1_OnlyTerminalErrorEscapes ==
    /\ outcome.status = "threw" => outcome.error = "NoUsableResult"
    /\ Finished => Len(log) = Len(Strategies)
    /\ (Finished /\ \A k \in 1..Len(log) : Failed(log[k])) => outcome.status = "threw"
    /\ (Finished /\ ~findConversationContainer(dom)) =>
           /\ \A k \in 1..Len(log) : log[k].threw /\ log[k].error = "NoContainerFound"
           /\ outcome.status = "threw"

C1_Witness ==
    /\ pc = "threw"
    /\ ~findConversationContainer(dom)
    /\ Len(log) = Len(Strategies)
    /\ outcome.error = "NoUsableResult"

\* the result kept by the loop, as it was before validation
WinnerEntries == {k \in 1..Len(log) : log[k].kept}
Winner == log[CHOOSE k \in WinnerEntries : \A j \in WinnerEntries : j <= k]

NonEmptyRound(r) == Len(Trim(r.user.text)) > 0 /\ Len(Trim(r.assistant.text)) > 0

\* C2: every round of the conversation analyze() returns has user.role =
\* 'user', assistant.role = 'assistant' and non-empty trimmed user and
\* assistant text; the rounds returned are the winner's rounds without the
\* ones that fail the non-empty condition
C2_ReturnedRoundsValid ==
    pc = "done" =>
        LET conv == outcome.value[1].conversation
            before == RoundsOf(Winner)
        IN  /\ \A k \in 1..Len(conv) :
                   /\ conv[k].user.role = "user"
                   /\ conv[k].assistant.role = "assistant"
                   /\ Trim(conv[k].user.text) # <<>>
                   /\ Trim(conv[k].assistant.text) # <<>>
            /\ conv = SelectIdx(before, {k \in 1..Len(before) : NonEmptyRound(before[k])}, 1)

C2_Witness ==
    /\ pc = "done"
    /\ Winner.strategy = "ReactStrategy"
    /\ \E k \in 1..Len(RoundsOf(Winner)) : ~NonEmptyRound(RoundsOf(Winner)[k])
    /\ Len(outcome.value[1].conversation) >= 1

\* order on number scores, by cross-multiplication
ScoreLess(a, b) == a.num * b.den < b.num * a.den
ScoreEqual(a, b) == a.num * b.den = b.num * a.den
Scored == {k \in 1..Len(log) : ~log[k].threw /\ IsNumber(log[k].score)}

\* C3: after the loop the kept result is the one with the strictly highest
\* score among the results of the strategies that did not throw; between
\* equal highest scores the result of the strategy registered earlier is kept
C3_KeepsHighestFirstWins ==
    LoopDone =>
        IF bestResult = <<>>
        THEN \A k \in Scored : ~ScoreLess(NumberScore(0, 1), log[k].score)
        ELSE \E k \in Scored :
                /\ bestResult = log[k].result
                /\ bestScore = log[k].score
                /\ \A j \in Scored :
                       /\ j < k => ScoreLess(log[j].score, log[k].score)
                       /\ j > k => ~ScoreLess(log[k].score, log[j].score)

C3_Witness ==
    /\ LoopDone
    /\ \E k \in Scored, j \in Scored :
           /\ k < j
           /\ log[k].strategy = "ReactStrategy"
           /\ log[j].strategy = "StructureStrategy"
           /\ ScoreEqual(log[k].score, log[j].score)
           /\ bestResult = log[k].result

ZeroRounds(e) == ~e.threw /\ Len(RoundsOf(e)) = 0

\* C4: a result with zero rounds gets an undefined score and is never kept,
\* wherever it runs and whatever the others return; if every strategy that
\* returns does so with zero rounds, analyze() ends with the terminal error
C4_ZeroRoundsNeverWins ==
    /\ \A k \in 1..Len(log) :
           ZeroRounds(log[k]) =>
               /\ log[k].score.nan
               /\ ~log[k].kept
               /\ bestResult # log[k].result
    /\ (Finished /\ \A k \in 1..Len(log) : log[k].threw \/ ZeroRounds(log[k])) =>
           (outcome.status = "threw" /\ outcome.error = "NoUsableResult")

C4_Witness ==
    /\ pc = "threw"
    /\ \E k \in 1..Len(log) : ZeroRounds(log[k])
    /\ \E k \in 1..Len(log) : log[k].threw

\* C6: in every conversation analyze() returns, metadata.confidenceScore is
\* the mean of the extractionConfidence of the rounds it contains, and 0
\* when it contains none
C6_ConfidenceIsMeanOfRounds ==
    pc = "done" =>
        LET res == outcome.value[1]
            conv == res.conversation
            cs == res.metadata.confidenceScore
        IN  IF Len(conv) = 0 THEN cs.num = 0
            ELSE cs.num * Len(conv) = SumConfidence(conv) * cs.den

\* the entries of the Framework Probe strategy that returned a result
ProbeEntries == {k \in 1..Len(log) : log[k].strategy = "ReactStrategy" /\ ~log[k].threw}
RolesOf(msgs) == [k \in 1..Len(msgs) |-> msgs[k].role]
HookAndReference == page.hook /\ page.fiber # NoFiber

\* C11 (Scenario C): with the hook present and a retained tree that yields
\* one 'user' record followed by one 'assistant' record, the Framework Probe
\* strategy returns exactly one round; every round built from probe records
\* has confidence exactly 0.9
C11_ScenarioC_OneRoundAtPointNine ==
    \A k \in ProbeEntries :
        /\ (HookAndReference /\ RolesOf(traverse(page.fiber, 1)) = <<"user", "assistant">>) =>
               Len(RoundsOf(log[k])) = 1
        /\ log[k].result[1].metadata.strategyUsed = "react-strategy" =>
               \A j \in 1..Len(RoundsOf(log[k])) :
                   RoundsOf(log[k])[j].metadata.extractionConfidence = ProbeConfidence

C11_Witness ==
    /\ HookAndReference
    /\ RolesOf(traverse(page.fiber, 1)) = <<"user", "assistant">>
    /\ \E k \in ProbeEntries :
           /\ Len(RoundsOf(log[k])) = 1
           /\ RoundsOf(log[k])[1].metadata.extractionConfidence = ProbeConfidence
           /\ 10 * ProbeConfidence = 9 * ConfScale

\* C15: the Framework Probe strategy returns the result of DOM-level
\* sequential pairing whenever the hook is absent, no framework reference
\* is found, or the traversal of the retained tree emits no record
C15_EmptyYieldDelegatesToDom ==
    \A k \in ProbeEntries :
        (\/ ~page.hook
         \/ page.fiber = NoFiber
         \/ traverse(page.fiber, 1) = <<>>) =>
            log[k].result[1].metadata.strategyUsed = "dom-fallback"

(***************************************************************************)
(* SpecValidate: validateAndEnhance applied again and again to the result  *)
(* of a strategy, while the clock may advance                              *)
(***************************************************************************)
ValidateDoms ==
    {LayOut(Flatten(bs, 0)) : bs \in UNION {[1..n -> OrchBlocks] : n \in 0..MaxValidateBlocks}}

InitValidate ==
    /\ dom \in ValidateDoms
    /\ page \in Pages
    /\ now = 0
    /\ pc = "raw"
    /\ \E k \in 1..Len(Strategies) :
           LET out == Execute(Strategies[k], dom, page, now)
           IN  /\ ~out.threw
               /\ bestResult = <<out.result>>
    /\ elements = <<>>
    /\ i = 1
    /\ userElement = 0
    /\ conversation = <<>>
    /\ sIdx = 1
    /\ bestScore = NumberScore(0, 1)
    /\ log = <<>>
    /\ outcome = NoOutcome
    /\ messages = <<>>
    /\ userMessage = 0
    /\ clusterCandidates = <<>>
    /\ clusters = <<>>
    /\ processed = {}
    /\ requests = <<>>

\* pc = "revalidated": the result was validated, and validated again with
\* no tick of the clock in between
Validate ==
    /\ bestResult' = <<validateAndEnhance(bestResult[1], page, dom, now)>>
    /\ pc' = IF pc \in {"validated", "revalidated"} THEN "revalidated" ELSE "validated"
    /\ UNCHANGED <<requests, dom, page, now, sIdx, bestScore, log, outcome>>
    /\ UNCHANGED pairLocals
    /\ UNCHANGED <<probeLocals, clusterLocals>>

Tick ==
    /\ now < MaxClock
    /\ now' = now + 1
    /\ pc' = IF pc = "raw" THEN "raw" ELSE "stale"
    /\ UNCHANGED <<requests, dom, page, sIdx, bestResult, bestScore, log, outcome>>
    /\ UNCHANGED pairLocals
    /\ UNCHANGED <<probeLocals, clusterLocals>>

NextValidate == Validate \/ Tick

SpecValidate == InitValidate /\ [][NextValidate]_vars

\* C5: the validation pass is idempotent: with the page facts and the clock
\* held fixed, validating a result that validateAndEnhance produced leaves
\* the rounds, totalRounds, successRate, domElementsAnalyzed and the
\* metadata as they are
C5_ValidateIdempotent ==
    [][pc' = "revalidated" =>
          /\ bestResult'[1].conversation = bestResult[1].conversation
          /\ bestResult'[1].extractionStats = bestResult[1].extractionStats
          /\ bestResult'[1].metadata = bestResult[1].metadata]_vars

C5_Witness ==
    /\ pc = "revalidated"
    /\ now > 0
    /\ Len(bestResult[1].conversation) >= 1
    /\ bestResult[1].metadata.extractedAt = now

(***************************************************************************)
(* SpecEval: evaluateExtraction applied to two results                     *)
(***************************************************************************)
EvalRound(conf, code) ==
    [index     |-> 1,
     user      |-> [role |-> "user", text |-> Text12, src |-> 0],
     assistant |-> [role |-> "assistant", text |-> Text12, src |-> 0,
                    formatAnalysis |-> [hasCodeBlocks |-> code, hasHeadings |-> FALSE]],
     metadata  |-> [extractionConfidence |-> conf, elementCount |-> 2]]

EvalRounds == {EvalRound(StructBase, FALSE), EvalRound(ConfCap, FALSE),
               EvalRound(ProbeConfidence, TRUE)}

EvalResults ==
    {createExtractedConversation(conv, "eval", NoPage, <<>>, 0) :
        conv \in UNION {[1..n -> EvalRounds] : n \in 0..MaxEvalRounds}}

InitEval ==
    /\ dom = <<>>
    /\ page = NoPage
    /\ now = 0
    /\ pc = "eval"
    /\ elements = <<>>
    /\ i = 1
    /\ userElement = 0
    /\ conversation = <<>>
    /\ sIdx = 1
    /\ bestResult = <<>>
    /\ bestScore = NumberScore(0, 1)
    /\ log = <<>>
    /\ outcome = NoOutcome
    /\ messages = <<>>
    /\ userMessage = 0
    /\ clusterCandidates = <<>>
    /\ clusters = <<>>
    /\ processed = {}
    /\ requests = <<>>

Evaluate ==
    /\ Len(log) < 2
    /\ \E r \in EvalResults :
           log' = Append(log, LogEntry("eval", Returned(r), evaluateExtraction(r), FALSE))
    /\ UNCHANGED <<requests, dom, page, now, pc, sIdx, bestResult, bestScore, outcome>>
    /\ UNCHANGED pairLocals
    /\ UNCHANGED <<probeLocals, clusterLocals>>

NextEval == Evaluate

SpecEval == InitEval /\ [][NextEval]_vars

HasCode(conv) == \E k \in 1..Len(conv) : conv[k].assistant.formatAnalysis.hasCodeBlocks
HasHeadings(conv) == \E k \in 1..Len(conv) : conv[k].assistant.formatAnalysis.hasHeadings
SameAverage(ca, cb) == SumConfidence(ca) * Len(cb) = SumConfidence(cb) * Len(ca)
AverageAtLeast(ca, cb) == SumConfidence(ca) * Len(cb) >= SumConfidence(cb) * Len(ca)

\* C7: evaluateExtraction is monotonic: of two results with at least one
\* round each and the same code-block and heading flags, the one with more
\* rounds and the same average confidence never scores lower, and the one
\* with a higher average confidence and the same round count never scores
\* lower
C7_EvaluateMonotonic ==
    \A a \in 1..Len(log), b \in 1..Len(log) :
        LET ca == RoundsOf(log[a])
            cb == RoundsOf(log[b])
        IN  (/\ Len(ca) >= 1
             /\ Len(cb) >= 1
             /\ HasCode(ca) = HasCode(cb)
             /\ HasHeadings(ca) = HasHeadings(cb)) =>
                /\ IsNumber(log[a].score)
                /\ (Len(ca) >= Len(cb) /\ SameAverage(ca, cb)) =>
                       ~ScoreLess(log[a].score, log[b].score)
                /\ (Len(ca) = Len(cb) /\ AverageAtLeast(ca, cb)) =>
                       ~ScoreLess(log[a].score, log[b].score)

C7_Witness ==
    /\ Len(log) = 2
    /\ Len(RoundsOf(log[1])) > Len(RoundsOf(log[2]))
    /\ Len(RoundsOf(log[2])) >= 1
    /\ SameAverage(RoundsOf(log[1]), RoundsOf(log[2]))
    /\ HasCode(RoundsOf(log[1])) = HasCode(RoundsOf(log[2]))
    /\ ScoreLess(log[2].score, log[1].score)

(***************************************************************************)
(* SpecProbe: tryGetReactData and extractFromReactData run record by       *)
(* record over retained trees whose nodes are of six kinds                 *)
(***************************************************************************)
\* [type, props] of the kinds of node placed in a retained tree
RoleUserKind      == [kind |-> "component", name |-> "UserMessage",
                      props |-> Props({"role", "children"}, "user", Content(Text12))]
RoleAssistantKind == [kind |-> "component", name |-> "ChatBubble",
                      props |-> Props({"role", "children"}, "assistant", Content(Text12))]
RoleSystemKind    == [kind |-> "host", name |-> "div",
                      props |-> Props({"role", "children"}, "system", Content(Text12))]
ChatKeyKind       == [kind |-> "component", name |-> "Row",
                      props |-> Props({"chatId", "children"}, "none", Content(Text12))]
PlainKind         == [kind |-> "host", name |-> "div",
                      props |-> Props({"children"}, "none", Content(Text12))]
NamedUserKind     == [kind |-> "component", name |-> "UserMessage",
                      props |-> Props({"children"}, "none", Content(Text12))]

ProbeKinds == {RoleUserKind, RoleAssistantKind, RoleSystemKind, ChatKeyKind,
               PlainKind, NamedUserKind}

\* a root followed by the nodes of ks, each the first child (nested) or the
\* next sibling of the one before it
FiberChain(ks, nested) ==
    <<Fiber("component", "App", Props({}, "none", NoContent), IF Len(ks) > 0 THEN 2 ELSE 0, 0)>>
    \o [k \in 1..Len(ks) |->
            Fiber(ks[k].kind, ks[k].name, ks[k].props,
                  IF nested /\ k < Len(ks) THEN k + 2 ELSE 0,
                  IF ~nested /\ k < Len(ks) THEN k + 2 ELSE 0)]

ProbeFibers ==
    {FiberChain(ks, nested) :
        ks \in UNION {[1..n -> ProbeKinds] : n \in 0..MaxProbeNodes}, nested \in BOOLEAN}

ProbePages ==
    {[hook |-> h, fiber |-> f, visual |-> NoPage.visual, url |-> "url1", title |-> "title1"] :
        h \in BOOLEAN, f \in ProbeFibers \cup {NoFiber, FiberPropsOnly}}

InitProbe ==
    /\ dom = <<>>
    /\ page \in ProbePages
    /\ now = 0
    /\ pc = "probe"
    /\ elements = <<>>
    /\ i = 1
    /\ userElement = 0
    /\ conversation = <<>>
    /\ sIdx = 1
    /\ bestResult = <<>>
    /\ bestScore = NumberScore(0, 1)
    /\ log = <<>>
    /\ outcome = NoOutcome
    /\ messages = <<>>
    /\ userMessage = 0
    /\ clusterCandidates = <<>>
    /\ clusters = <<>>
    /\ processed = {}
    /\ requests = <<>>

\* execute(), lines 559-566: tryGetReactData; null sends execute() to
\* extractFromDOM
ProbeTraverse ==
    /\ pc = "probe"
    /\ \E reactData \in {tryGetReactData(page)} :
           /\ messages' = reactData.messages
           /\ pc' = IF reactData.null THEN "dom-fallback" ELSE "pair"
    /\ userMessage' = 0
    /\ conversation' = <<>>
    /\ i' = 1
    /\ UNCHANGED <<requests, dom, page, now, elements, userElement, clusterLocals>>
    /\ UNCHANGED analyzeLocals

\* one call of the forEach callback of extractFromReactData
ProbePair ==
    /\ pc = "pair"
    /\ i <= Len(messages)
    /\ \E st \in {ProbeStep(messages, [userMessage |-> userMessage,
                                        conversation |-> conversation], i)} :
           /\ userMessage' = st.userMessage
           /\ conversation' = st.conversation
    /\ i' = i + 1
    /\ UNCHANGED <<requests, dom, page, now, pc, elements, userElement, messages, clusterLocals>>
    /\ UNCHANGED analyzeLocals

\* line 711
ProbeReturn ==
    /\ pc = "pair"
    /\ i > Len(messages)
    /\ pc' = "done"
    /\ outcome' = [status |-> "returned", error |-> "",
                   value |-> <<createExtractedConversation(conversation, "react-strategy",
                                                           page, dom, now)>>]
    /\ UNCHANGED <<requests, dom, page, now, sIdx, bestResult, bestScore, log>>
    /\ UNCHANGED <<pairLocals, probeLocals, clusterLocals>>

NextProbe == ProbeTraverse \/ ProbePair \/ ProbeReturn

SpecProbe == InitProbe /\ [][NextProbe]_vars

(***************************************************************************)
(* Claims on the Framework Probe                                           *)
(***************************************************************************)
\* position in messages of the record a message of a round was built from
RecordOf(src) == CHOOSE k \in 1..Len(messages) : messages[k].node = src
UserRecords == {k \in 1..Len(messages) : messages[k].role = "user"}
AssistantRecords == {k \in 1..Len(messages) : messages[k].role = "assistant"}
\* the records the forEach has been called on
Visited == 1..(i - 1)
PairedAssistants == {RecordOf(conversation[j].assistant.src) : j \in 1..Len(conversation)}
\* the last record of the latest round emitted before record k, 0 if none
LastPairedBefore(k) ==
    LET before == {a \in PairedAssistants : a < k}
    IN  IF before = {} THEN 0 ELSE CHOOSE a \in before : \A b \in before : b <= a

\* C16: probe pairing is strict alternation: a round joins an assistant
\* record with the latest user record seen since the last emitted round;
\* emitting a round clears the remembered user; an assistant record with no
\* remembered user is ignored; a later user record replaces an earlier
\* unpaired one; no record is in more than one round
C16_StrictAlternation ==
    pc \in {"pair", "done"} =>
        /\ \A j \in 1..Len(conversation) :
               LET u == RecordOf(conversation[j].user.src)
                   a == RecordOf(conversation[j].assistant.src)
               IN  /\ u \in UserRecords
                   /\ a \in AssistantRecords
                   /\ u < a
                   /\ a \in Visited
                   /\ UserRecords \cap ((u + 1)..(a - 1)) = {}
                   /\ u > LastPairedBefore(a)
                   /\ j > 1 => RecordOf(conversation[j - 1].assistant.src) < u
        /\ \A a \in (AssistantRecords \cap Visited) \ PairedAssistants :
               UserRecords \cap ((LastPairedBefore(a) + 1)..(a - 1)) = {}
        /\ LET since == UserRecords \cap ((LastPairedBefore(i) + 1)..(i - 1))
           IN  userMessage = IF since = {} THEN 0
                             ELSE CHOOSE u \in since : \A v \in since : v <= u

C16_Witness ==
    /\ pc = "done"
    /\ Len(conversation) = 1
    /\ \E k \in 1..(Len(messages) - 3) :
           /\ messages[k].role = "user"
           /\ messages[k + 1].role = "user"
           /\ messages[k + 2].role = "assistant"
           /\ messages[k + 3].role = "assistant"
           /\ conversation[1].user.src = messages[k + 1].node
           /\ conversation[1].assistant.src = messages[k + 2].node

Emitted(n) == \E k \in 1..Len(messages) : messages[k].node = n
ContainsMessageWord(has) == has \cap {"message", "chat", "bubble"} # {}

\* C20: a visited node is emitted as a record exactly when its type name
\* contains 'message', 'chat' or 'bubble', or one of its prop keys does, or
\* its role prop equals 'user' or 'assistant'
C20_EmittedExactlyOnClaimedSignals ==
    pc \in {"pair", "done"} =>
        \A n \in 1..Len(page.fiber) :
            Emitted(n) <=>
                \/ page.fiber[n].type.kind # "none"
                      /\ ContainsMessageWord(NameHas(page.fiber[n].type.name))
                \/ \E key \in page.fiber[n].props.keys : ContainsMessageWord(NameHas(key))
                \/ page.fiber[n].props.role \in {"user", "assistant"}

(***************************************************************************)
(* SpecCluster: findMessageClusters run seed by seed, then the rounds of   *)
(* the clusters, over a container holding a sequence of sibling blocks     *)
(***************************************************************************)
Text10 == Rep("x", 10)

Wrapped(tag, cls, ptag, text, kw) ==
    <<Node(tag, cls, <<>>, {}, StyleA), Child(Node(ptag, <<>>, text, kw, StyleA), 1)>>

\* the two elements of Scenario A
QUser == Wrapped("div", <<"msg", "user-question">>, "p", Text25, {})
QAssistant == Wrapped("div", <<"msg", "ai-answer">>, "p", Text25, {"fence"})
\* an element with children and long text, without a message-ish keyword
PlainSection == Wrapped("section", <<>>, "p", Text25, {})
\* a message without children
LeafMessage == <<Node("div", <<"message">>, Text25, {}, StyleA)>>
\* a message holding code of exactly ten characters
CodeTen == Wrapped("div", <<"message">>, "pre", Text10, {})

ClusterBlocks == {BUser, BAssistant, QUser, QAssistant, PlainSection, LeafMessage, CodeTen}

LongBlocks == {BUser, BAssistant, PlainSection}

\* short lists of all the blocks, long lists of three of them
ClusterDoms ==
    {LayOut(Flatten(bs, 0)) :
        bs \in UNION {[1..n -> ClusterBlocks] : n \in 0..MaxSiblings}
               \cup UNION {[1..n -> LongBlocks] : n \in 0..MaxLongSiblings}}

InitCluster ==
    /\ dom \in ClusterDoms
    /\ page = NoPage
    /\ now = 0
    /\ pc = "start"
    /\ elements = <<>>
    /\ i = 1
    /\ userElement = 0
    /\ conversation = <<>>
    /\ sIdx = 1
    /\ bestResult = <<>>
    /\ bestScore = NumberScore(0, 1)
    /\ log = <<>>
    /\ outcome = NoOutcome
    /\ messages = <<>>
    /\ userMessage = 0
    /\ clusterCandidates = <<>>
    /\ clusters = <<>>
    /\ processed = {}
    /\ requests = <<>>

\* lines 139-163
ClusterStart ==
    /\ pc = "start"
    /\ clusterCandidates' = SelectIdx([n \in 1..Len(dom) |-> n], candidateElements(dom), 1)
    /\ clusters' = <<>>
    /\ processed' = {}
    /\ i' = 1
    /\ pc' = "seed"
    /\ UNCHANGED <<requests, dom, page, now, elements, userElement, conversation, probeLocals>>
    /\ UNCHANGED analyzeLocals

\* one iteration of the for loop of lines 165-201
ClusterSeed ==
    /\ pc = "seed"
    /\ i <= Len(clusterCandidates)
    /\ \E acc \in {SeedStep(dom, candidateElements(dom), clusterCandidates[i],
                              [clusters |-> clusters, processed |-> processed])} :
           /\ clusters' = acc.clusters
           /\ processed' = acc.processed
    /\ i' = i + 1
    /\ UNCHANGED <<requests, dom, page, now, pc, elements, userElement, conversation,
                   clusterCandidates, probeLocals>>
    /\ UNCHANGED analyzeLocals

\* lines 204-206
ClusterSort ==
    /\ pc = "seed"
    /\ i > Len(clusterCandidates)
    /\ clusters' = SortBySize(clusters)
    /\ pc' = "process"
    /\ UNCHANGED <<requests, dom, page, now, elements, i, userElement, conversation,
                   clusterCandidates, processed, probeLocals>>
    /\ UNCHANGED analyzeLocals

\* extractUsingStructureAnalysis, lines 119-132
ClusterProcess ==
    /\ pc = "process"
    /\ conversation' = RoundsOrFallback(dom, RoundsOfClusters(dom, clusters))
    /\ pc' = "done"
    /\ UNCHANGED <<requests, dom, page, now, elements, i, userElement, probeLocals, clusterLocals>>
    /\ UNCHANGED analyzeLocals

NextCluster == ClusterStart \/ ClusterSeed \/ ClusterSort \/ ClusterProcess

SpecCluster == InitCluster /\ [][NextCluster]_vars

(***************************************************************************)
(* Claims on structural clustering                                         *)
(***************************************************************************)
ScenarioADom == LayOut(Flatten(<<QUser, QAssistant>>, 0))
Members(c) == {c[k] : k \in 1..Len(c)}
SigOf(n) == calculateElementSignature(dom, n)
\* the signatures of the elements below the container
Signatures == {SigOf(n) : n \in 1..Len(dom)}

\* C12 (Scenario A): the two adjacent siblings 'msg user-question' and
\* 'msg ai-answer' have similar signatures, findMessageClusters puts them in
\* one cluster, and the strategy emits exactly one round whose assistant has
\* hasCodeBlocks set
C12_ScenarioA_OneRoundWithCode ==
    (dom = ScenarioADom /\ pc = "done") =>
        /\ isSimilarSignature(SigOf(1), SigOf(3))
        /\ \E k \in 1..Len(clusters) : {1, 3} \subseteq Members(clusters[k])
        /\ Len(conversation) = 1
        /\ conversation[1].assistant.formatAnalysis.hasCodeBlocks

\* C13: the similarity of isSimilarSignature is |intersection| / |union| of
\* the two feature sets; for every pair of signatures it lies in [0,1] and
\* is the same with the arguments swapped, so isSimilarSignature is
\* symmetric, and two signatures are similar only when the value is
\* strictly greater than 0.6
C13_JaccardSymmetricBounded ==
    \A sigs \in {Signatures} :
        \A sig1 \in sigs, sig2 \in sigs :
            LET ab == JaccardSimilarity(sig1, sig2)
                ba == JaccardSimilarity(sig2, sig1)
            IN  /\ ab.den > 0
                /\ ab.num = Cardinality(sig1 \cap sig2)
                /\ ab.den = Cardinality(sig1 \cup sig2)
                /\ 0 <= ab.num
                /\ ab.num <= ab.den
                /\ ab.num * ba.den = ba.num * ab.den
                /\ isSimilarSignature(sig1, sig2) = isSimilarSignature(sig2, sig1)
                /\ isSimilarSignature(sig1, sig2) => 10 * ab.num > 6 * ab.den

\* a cluster was built from a similar pair, while another pair of siblings
\* sits exactly on the threshold 3/5 and a third shares nothing but a part
C13_Witness ==
    /\ pc = "done"
    /\ Len(clusters) >= 1
    /\ \E sigs \in {Signatures} :
           /\ \E sig1 \in sigs, sig2 \in sigs :
                  /\ JaccardSimilarity(sig1, sig2) = [num |-> 3, den |-> 5]
                  /\ ~isSimilarSignature(sig1, sig2)
           /\ \E sig1 \in sigs, sig2 \in sigs :
                  /\ Cardinality(sig1) # Cardinality(sig2)
                  /\ isSimilarSignature(sig1, sig2)

Siblings(n, m) == dom[n].parent = dom[m].parent

\* C14: every cluster of findMessageClusters is a contiguous run of
\* siblings: the walk stops at the first sibling that is not a candidate,
\* is processed, or is not similar to the seed, so no sibling is added
\* beyond a rejected one
C14_ClustersContiguous ==
    \A k \in 1..Len(clusters) :
        \A n \in Members(clusters[k]), m \in Members(clusters[k]) :
            /\ Siblings(n, m)
            /\ \A x \in 1..Len(dom) :
                   (Siblings(x, n) /\ n < x /\ x < m) => x \in Members(clusters[k])

\* C17: the clustering candidates are exactly the elements that pass the
\* Candidate Filter and have (text length >= 20 or code) and (children > 0
\* or depth > 2); no element without a message-ish keyword is a candidate;
\* a filtered element with code and children is a candidate
C17_CandidatesAreFilteredElements ==
    pc # "start" =>
        LET filtered == {extractMessageElements(dom)[k] : k \in 1..Len(extractMessageElements(dom))}
            textLen(n) == Len(Trim(TextContent(dom, n)))
            complex(n) == Cardinality(Children(dom, n)) > 0 \/ calculateMaxDepth(dom, n, 0) > 2
        IN  /\ Members(clusterCandidates) =
                   {n \in filtered : (textLen(n) >= 20 \/ containsCode(dom, n)) /\ complex(n)}
            /\ \A n \in filtered :
                   (containsCode(dom, n) /\ Cardinality(Children(dom, n)) > 0) =>
                       n \in Members(clusterCandidates)

MembersOfRole(c, role) == {k \in 1..Len(c) : classifyMessage(dom, c[k]) = role}
HasBothRoles(c) == MembersOfRole(c, "user") # {} /\ MembersOfRole(c, "assistant") # {}
FirstOfRole(c, role) ==
    CHOOSE k \in MembersOfRole(c, role) : \A j \in MembersOfRole(c, role) : k <= j
\* the clusters that have a member of each role, in the order of the list
PairedClusters == SelectIdx(clusters, {k \in 1..Len(clusters) : HasBothRoles(clusters[k])}, 1)

\* C21: processMessageCluster emits at most one round per cluster whatever
\* its size: the first user-classified member with the first
\* assistant-classified member, index = position(user) + position(assistant)
\* within the cluster, and nothing for a cluster that lacks a role
C21_OneRoundPerCluster ==
    (pc = "done" /\ PairedClusters # <<>>) =>
        /\ Len(conversation) = Len(PairedClusters)
        /\ \A j \in 1..Len(PairedClusters) :
               \E c \in {PairedClusters[j]} :
                   \E u \in {FirstOfRole(c, "user")}, a \in {FirstOfRole(c, "assistant")} :
                       /\ conversation[j].user.src = c[u]
                       /\ conversation[j].assistant.src = c[a]
                       /\ conversation[j].index = (u - 1) + (a - 1)

\* a cluster of three or more whose second member is a user too, next to a
\* cluster without an assistant
C21_Witness ==
    /\ pc = "done"
    /\ Len(clusters) = 2
    /\ Len(conversation) = 1
    /\ Len(PairedClusters) = 1
    /\ Len(PairedClusters[1]) >= 3
    /\ conversation[1].index = 2
    /\ conversation[1].user.src = PairedClusters[1][1]

InClusters == UNION {Members(clusters[k]) : k \in 1..Len(clusters)}

\* C22: the clusters of findMessageClusters have at least 2 members each,
\* are returned by non-increasing size, and are pairwise disjoint: an
\* element is in at most one cluster, and a seed whose singleton cluster was
\* discarded is never added to a later cluster
C22_ClustersSizedSortedDisjoint ==
    /\ [](/\ \A k \in 1..Len(clusters) :
               /\ Len(clusters[k]) >= 2
               /\ Cardinality(Members(clusters[k])) = Len(clusters[k])
               /\ Members(clusters[k]) \subseteq processed
               /\ \A j \in 1..Len(clusters) :
                      j # k => Members(clusters[k]) \cap Members(clusters[j]) = {}
           /\ pc \in {"process", "done"} =>
                  \A m \in 1..(Len(clusters) - 1) : Len(clusters[m]) >= Len(clusters[m + 1]))
    /\ [][\A n \in processed \ InClusters : n \notin UNION {Members(clusters'[k]) : k \in 1..Len(clusters')}]_vars

\* two clusters of different sizes, the larger seeded later and moved to
\* the front, and a discarded singleton
C22_Witness ==
    /\ pc = "process"
    /\ Len(clusters) = 2
    /\ Len(clusters[1]) > Len(clusters[2])
    /\ clusters[1][1] > clusters[2][1]
    /\ processed \ InClusters # {}

(***************************************************************************)
(* Further claims on analyze(): StructureStrategy.execute                  *)
(***************************************************************************)
StructureEntries == {k \in 1..Len(log) : log[k].strategy = "StructureStrategy"}

\* C23: StructureStrategy.execute() throws exactly when no container is
\* located; with a container it returns the rounds built from the clusters
\* when there is at least one, and the rounds of sequential fallback pairing
\* exactly when the clusters produced none
C23_ClusterRoundsOrFallback ==
    \A k \in StructureEntries :
        \E cr \in {RoundsOfClusters(dom, findMessageClusters(dom))} :
            /\ log[k].threw <=> ~findConversationContainer(dom)
            /\ ~log[k].threw =>
                   /\ cr # <<>> => RoundsOf(log[k]) = cr
                   /\ cr = <<>> => RoundsOf(log[k]) = fallbackToSequentialPairing(dom)
                   /\ log[k].result[1].metadata.strategyUsed = "structure-analysis"

\* a container without any cluster: the strategy returned the round of the
\* fallback
C23_Witness ==
    \E k \in StructureEntries :
        /\ findConversationContainer(dom)
        /\ findMessageClusters(dom) = <<>>
        /\ ~log[k].threw
        /\ Len(RoundsOf(log[k])) >= 1
        /\ RoundsOf(log[k]) = fallbackToSequentialPairing(dom)

(***************************************************************************)
(* SpecConf: the two confidence functions applied to a pair of elements.   *)
(* The first element is the user message; the second differs from it in    *)
(* the number of equal style properties, the place of its box, its class   *)
(* attribute, its tag and its depth below the container.                   *)
(***************************************************************************)
ConfStyles == {[p \in 1..NumStyleProps |-> IF p <= k THEN 0 ELSE 1] : k \in 0..NumStyleProps}

\* tops of the second box; the first box is [100, 150]
ConfTops == {50, 150, 151, 649, 650, 651}

ConfUserClasses == {<<>>, <<"message", "user">>, <<"user-question">>}
ConfAssistantClasses == {<<>>, <<"message", "assistant">>, <<"ai-answer">>, <<"answer">>}

\* the second element as a sibling of the first, in one wrapper, or in two
ConfShapes == {0, 1, 2}

ConfDom(ucls, acls, atag, style, top, shape) ==
    LET u == [Node("div", ucls, Text12, {}, StyleA) EXCEPT !.top = 100, !.bottom = 150]
        a == [Node(atag, acls, Text12, {}, style) EXCEPT !.top = top, !.bottom = top + 50]
        w1 == [Node("article", <<>>, <<>>, {}, StyleA) EXCEPT !.top = top, !.bottom = top + 50]
        w2 == [Child(Node("section", <<>>, <<>>, {}, StyleA), 2)
                  EXCEPT !.top = top, !.bottom = top + 50]
    IN  CASE shape = 0 -> <<u, a>>
          [] shape = 1 -> <<u, w1, Child(a, 2)>>
          [] shape = 2 -> <<u, w1, w2, Child(a, 3)>>

ConfDoms ==
    {ConfDom(ucls, acls, atag, style, top, shape) :
        ucls \in ConfUserClasses, acls \in ConfAssistantClasses, atag \in {"div", "section"},
        style \in ConfStyles, top \in ConfTops, shape \in ConfShapes}

InitConf ==
    /\ dom \in ConfDoms
    /\ page = NoPage
    /\ now = 0
    /\ pc = "start"
    /\ elements = <<>>
    /\ i = 1
    /\ userElement = 0
    /\ conversation = <<>>
    /\ sIdx = 1
    /\ bestResult = <<>>
    /\ bestScore = NumberScore(0, 1)
    /\ log = <<>>
    /\ outcome = NoOutcome
    /\ messages = <<>>
    /\ userMessage = 0
    /\ clusterCandidates = <<>>
    /\ clusters = <<>>
    /\ processed = {}
    /\ requests = <<>>

\* the round each strategy builds from the pair, in either order of the two
\* elements: createConversationRound of StructureStrategy (variant A), then
\* createConversationRound of ReactStrategy (variant B)
Measure ==
    /\ pc = "start"
    /\ \E pair \in {<<1, Len(dom)>>, <<Len(dom), 1>>} :
           conversation' = <<createConversationRound(dom, 1, pair[1], pair[2]),
                             createConversationRoundFromElements(dom, 1, pair[1], pair[2])>>
    /\ pc' = "done"
    /\ UNCHANGED <<requests, dom, page, now, elements, i, userElement, probeLocals, clusterLocals>>
    /\ UNCHANGED analyzeLocals

NextConf == Measure

SpecConf == InitConf /\ [][NextConf]_vars

ConfidenceOf(r) == r.metadata.extractionConfidence
StartsBelow(r) == dom[r.assistant.src].top > dom[r.user.src].bottom
SharesClassWord(r) == ClassWords(dom, r.user.src) \cap ClassWords(dom, r.assistant.src) # {}
StyleMatches(r) ==
    Cardinality({p \in 1..NumStyleProps :
                    dom[r.user.src].style[p] = dom[r.assistant.src].style[p]})

\* C24: every round confidence lies in [0, 1] and never exceeds 0.95;
\* variant A lies in [0.60, 0.95]; variant B is 0.70, 0.80, 0.90 or 0.95:
\* 0.70, plus 0.20 when the assistant box starts below the user box, plus
\* 0.10 when the class attributes share a word, capped at 0.95
C24_ConfidenceRanges ==
    pc = "done" =>
        /\ \A k \in 1..Len(conversation) :
               /\ ConfidenceOf(conversation[k]) >= 0
               /\ ConfidenceOf(conversation[k]) <= ConfScale
               /\ 100 * ConfidenceOf(conversation[k]) <= 95 * ConfScale
        /\ 100 * ConfidenceOf(conversation[1]) >= 60 * ConfScale
        /\ 100 * ConfidenceOf(conversation[2]) \in
               {70 * ConfScale, 80 * ConfScale, 90 * ConfScale, 95 * ConfScale}
        /\ \E b \in {conversation[2]} :
               100 * ConfidenceOf(b) =
                   Min(95 * ConfScale,
                       70 * ConfScale
                       + (IF StartsBelow(b) THEN 20 * ConfScale ELSE 0)
                       + (IF SharesClassWord(b) THEN 10 * ConfScale ELSE 0))

\* both sums pass 0.95: sibling elements, a box below, all styles equal,
\* a shared class word
C24_Witness ==
    /\ pc = "done"
    /\ StyleMatches(conversation[1]) = NumStyleProps
    /\ Len(dom) = 2
    /\ StartsBelow(conversation[1])
    /\ ConfidenceOf(conversation[1]) = ConfCap
    /\ StartsBelow(conversation[2]) /\ SharesClassWord(conversation[2])
    /\ ConfidenceOf(conversation[2]) = ConfCap

(***************************************************************************)
(* Further claims on analyze(): the order of the strategies                *)
(***************************************************************************)
\* C25: within one analyze() call the strategies are started once each, in
\* registration order (Framework Probe, Structural Clustering, Visual
\* Layout): the k-th strategy started is the k-th registered, one is started
\* per iteration after the previous one ended, a failed strategy is not
\* started again, and all three have been started when the loop is left
C25_EachStrategyOnceInOrder ==
    /\ Strategies = <<"ReactStrategy", "StructureStrategy", "VisualStrategy">>
    /\ Len(log) <= Len(Strategies)
    /\ \A k \in 1..Len(log) : log[k].strategy = Strategies[k]
    /\ pc = "loop" => Len(log) = sIdx - 1
    /\ (LoopDone \/ Finished) => Len(log) = Len(Strategies)

\* the first strategy threw and the two after it were still started, once
\* each
C25_Witness ==
    /\ Finished
    /\ Len(log) = 3
    /\ log[1].threw
    /\ log[2].strategy = "StructureStrategy"
    /\ log[3].strategy = "VisualStrategy"

(***************************************************************************)
(* Further claims on sequential fallback pairing                           *)
(***************************************************************************)
PairsOf(conv) == [k \in 1..Len(conv) |-> <<conv[k].user.src, conv[k].assistant.src>>]

\* C26: on the same filtered elements and with the same classification,
\* ReactStrategy.extractFromDOM and fallbackToSequentialPairing emit the
\* same (user element, assistant element) pairs in the same order; it holds
\* after every iteration for the elements handled so far
C26_DomFallbackEquivalent ==
    pc \in {"loop", "done"} =>
        PairsOf(conversation) =
            PairsOf(PairDom(dom, SubSeq(elements, 1, i - 1),
                            [userMessage |-> 0, conversation |-> <<>>], 1))

\* two rounds out of five elements, the first user replaced by a later one
C26_Witness ==
    /\ pc = "done"
    /\ Len(elements) = 5
    /\ Len(conversation) = 2
    /\ conversation[1].user.src = elements[2]
    /\ PairsOf(conversation) = PairsOf(extractFromDOM(dom, page, now).conversation)

RoundElements(r) == {r.user.src, r.assistant.src}

Plain(own) == Node("div", <<>>, own, {}, StyleA)

\* a message in one wrapper, and in two
NestedUser == <<Plain(<<>>), Child(UserNode, 1)>>
DeepAssistant == <<Plain(<<>>), Child(Plain(<<>>), 1), Child(AssistantNode, 2)>>
\* a wrapper with two characters around a message without text
ShortAroundEmpty == <<Plain(Rep("x", 2)), Child(EmptyNode, 1)>>
\* a wrapper whose only own text is white space, around a message of ten
\* characters and around a message without text
SpaceAroundTen == <<Plain(Rep(" ", 2)),
                    Child(Node("div", <<"message", "assistant">>, Text10, {}, StyleA), 1)>>
SpaceAroundEmpty == <<Plain(Rep(" ", 2)), Child(EmptyNode, 1)>>
\* a message holding a small marked element
MessageAroundTiny == <<UserNode, Child(TinyNode, 1)>>

NestedBlocks == {NestedUser, DeepAssistant, ShortAroundEmpty, SpaceAroundTen,
                 SpaceAroundEmpty, MessageAroundTiny, FUser, FAssistant}

FilterDoms ==
    {LayOut(Flatten(bs, 0)) : bs \in UNION {[1..n -> NestedBlocks] : n \in 0..MaxNestedBlocks}}

InitFilter ==
    /\ dom \in FilterDoms
    /\ page = NoPage
    /\ now = 0
    /\ pc = "start"
    /\ elements = <<>>
    /\ i = 1
    /\ userElement = 0
    /\ conversation = <<>>
    /\ sIdx = 1
    /\ bestResult = <<>>
    /\ bestScore = NumberScore(0, 1)
    /\ log = <<>>
    /\ outcome = NoOutcome
    /\ messages = <<>>
    /\ userMessage = 0
    /\ clusterCandidates = <<>>
    /\ clusters = <<>>
    /\ processed = {}
    /\ requests = <<>>

SpecFilter == InitFilter /\ [][NextPair]_vars

ReturnedNodes == {elements[k] : k \in 1..Len(elements)}
Qualifying == {n \in 1..Len(dom) : IsFilterCandidate(dom, n)}
HasText(n) == TextContent(dom, n) # <<>>
RECURSIVE TopAncestor(_)
TopAncestor(n) == IF dom[n].parent = 0 THEN n ELSE TopAncestor(dom[n].parent)

\* C28: the Candidate Filter returns no node that lies inside another
\* qualifying node; every node above a qualifying node with text qualifies
\* too, so every returned node with non-empty text is a direct child of the
\* container, and a qualifying node with text that lies deeper is replaced
\* in the output by its ancestor that is a direct child of the container
C28_ReturnedAreOutermost ==
    pc \in {"loop", "done"} =>
        /\ ReturnedNodes \subseteq Qualifying
        /\ \A n \in ReturnedNodes :
               ~\E other \in Qualifying : other # n /\ Contains(dom, other, n)
        /\ \A n \in ReturnedNodes : HasText(n) => dom[n].parent = 0
        /\ \A n \in Qualifying :
               (HasText(n) /\ dom[n].parent # 0) =>
                   /\ n \notin ReturnedNodes
                   /\ dom[n].parent \in Qualifying
                   /\ TopAncestor(n) \in ReturnedNodes

\* a message three levels down replaced by its outermost wrapper, next to
\* a returned node without text that is not a direct child
C28_Witness ==
    /\ pc = "done"
    /\ \E n \in Qualifying :
           /\ HasText(n)
           /\ dom[n].parent # 0 /\ dom[dom[n].parent].parent # 0
           /\ n \notin ReturnedNodes
           /\ TopAncestor(n) \in ReturnedNodes
    /\ \E n \in ReturnedNodes : ~HasText(n) /\ dom[n].parent # 0

(***************************************************************************)
(* Further claims on analyze(): validation of the winner                   *)
(***************************************************************************)
\* validation drops every round of the winning result
WinnerLosesAllRounds ==
    /\ WinnerEntries # {}
    /\ \A k \in 1..Len(RoundsOf(Winner)) : ~NonEmptyRound(RoundsOf(Winner)[k])

\* entries other than the winner whose result holds a round that validation
\* would keep
ValidLosers ==
    {k \in 1..Len(log) :
        /\ ~log[k].threw /\ ~log[k].kept
        /\ \E j \in 1..Len(RoundsOf(log[k])) : NonEmptyRound(RoundsOf(log[k])[j])}

\* C29: the winner is chosen by the scores computed before validation and
\* is not revisited: analyze() throws only when no result was kept, and
\* when validation drops every round of the winner it still returns that
\* result, with zero rounds, totalRounds 0 and successRate 0
C29_EmptiedWinnerStillReturned ==
    /\ pc = "threw" => WinnerEntries = {}
    /\ (Finished /\ WinnerEntries # {}) => pc = "done"
    /\ (pc = "done" /\ WinnerLosesAllRounds) =>
           /\ outcome.status = "returned"
           /\ \E res \in {outcome.value[1]} :
                  /\ res.conversation = <<>>
                  /\ res.extractionStats.totalRounds = 0
                  /\ res.extractionStats.successRate = 0
                  /\ res.metadata.strategyUsed = Winner.result[1].metadata.strategyUsed
                  /\ res.metadata.confidenceScore = Winner.result[1].metadata.confidenceScore
           /\ bestScore = Winner.score

\* the winner had a round and lost it, while another strategy had returned
\* a round that validation keeps
C29_Witness ==
    /\ pc = "done"
    /\ WinnerLosesAllRounds
    /\ Len(RoundsOf(Winner)) >= 1
    /\ ValidLosers # {}
    /\ outcome.value[1].conversation = <<>>

(***************************************************************************)
(* SpecContent: the content script.  Each request the listener receives    *)
(* starts a call of handleMessage with its own sendResponse; a call for    *)
(* 'extract' is suspended at every await of analyze(), where the calls of  *)
(* other requests run.  A request is the record                            *)
(*   action, pc ("loop" inside analyze(), "returned" after handleMessage), *)
(*   sIdx, bestResult, bestScore : the locals of its analyze() call,       *)
(*   responses : the arguments its sendResponse was called with            *)
(* StandardizedFormatConverter is not part of the sources: a call of       *)
(* convertToStandardFormat returns a value or throws, as an input.         *)
(***************************************************************************)
Actions == {"extract", "ping", "other"}

Response(success, message, error, data) ==
    [success |-> success, message |-> message, error |-> error, data |-> data]

sendResponse(r, resp) == [r EXCEPT !.responses = Append(@, resp)]

\* a plausible slip: no try/catch around the switch, the error leaves
\* handleMessage
handleMessageCatch_Rethrow(r, error) == [r EXCEPT !.pc = "returned"]

\* the catch block of handleMessage (lines 167-170)
handleMessageCatch(r, error) ==
    [sendResponse(r, Response(FALSE, "", error, <<>>)) EXCEPT !.pc = "returned"]

convertToStandardFormat(extracted, converts) ==
    IF converts THEN Returned([format |-> "standard", source |-> extracted])
    ELSE Threw("ConversionFailed")

\* handleMessage up to its first await or its end
handleMessage(action) ==
    LET r == [action |-> action, pc |-> "loop", sIdx |-> 1, bestResult |-> <<>>,
              bestScore |-> NumberScore(0, 1), responses |-> <<>>]
    IN  CASE action = "extract" -> r
          [] action = "ping" ->
                 [sendResponse(r, Response(TRUE, "pong", "", <<>>)) EXCEPT !.pc = "returned"]
          [] OTHER ->
                 [sendResponse(r, Response(FALSE, "", "UnknownAction", <<>>))
                     EXCEPT !.pc = "returned"]

\* one iteration of the loop of analyze() on the locals of request r
analyzeIteration(r, d, pg, t) ==
    LET st == LoopBody([bestResult |-> r.bestResult, bestScore |-> r.bestScore,
                        log |-> <<>>, escaped |-> ""],
                       Strategies[r.sIdx], d, pg, t)
    IN  [r EXCEPT !.bestResult = st.bestResult, !.bestScore = st.bestScore,
                  !.sIdx = @ + 1]

\* analyze() after its loop (lines 54-65)
analyzeEnd(r, d, pg, t) ==
    IF r.bestResult = <<>> THEN Threw("NoUsableResult")
    ELSE Returned([validateAndEnhance(r.bestResult[1], pg, d, t)
                      EXCEPT !.extractionStats.processingTimeMs = t - 0])

\* extractConversation once analyze() ended with out
extractConversationEnd(out, converts) ==
    IF out.threw THEN out ELSE convertToStandardFormat(out.result, converts)

\* handleMessage once extractConversation ended with out
handleExtractEnd(r, out) ==
    IF out.threw THEN handleMessageCatch(r, out.error)
    ELSE [sendResponse(r, Response(TRUE, "", "", <<out.result>>)) EXCEPT !.pc = "returned"]

\* a page without container, one with a round, one whose only round is
\* dropped by validation
ContentDoms == {<<>>, LayOut(Flatten(<<FUser, FAssistant>>, 0)),
                LayOut(Flatten(<<FUser, FEmptyAssistant>>, 0))}

InitContent ==
    /\ dom \in ContentDoms
    /\ page = NoPage
    /\ now = 0
    /\ pc = "idle"
    /\ elements = <<>>
    /\ i = 1
    /\ userElement = 0
    /\ conversation = <<>>
    /\ sIdx = 1
    /\ bestResult = <<>>
    /\ bestScore = NumberScore(0, 1)
    /\ log = <<>>
    /\ outcome = NoOutcome
    /\ messages = <<>>
    /\ userMessage = 0
    /\ clusterCandidates = <<>>
    /\ clusters = <<>>
    /\ processed = {}
    /\ requests = <<>>

\* the listener of init() (lines 141-144)
Receive ==
    /\ Len(requests) < MaxRequests
    /\ \E action \in Actions : requests' = Append(requests, handleMessage(action))
    /\ UNCHANGED <<dom, page, now, pc, elements, i, userElement, conversation,
                   probeLocals, clusterLocals>>
    /\ UNCHANGED analyzeLocals

\* a suspended analyze() resumes for one iteration
ResumeAnalyze ==
    /\ \E k \in 1..Len(requests) :
           /\ requests[k].pc = "loop"
           /\ requests[k].sIdx <= Len(Strategies)
           /\ requests' = [requests EXCEPT ![k] = analyzeIteration(@, dom, page, now)]
    /\ UNCHANGED <<dom, page, now, pc, elements, i, userElement, conversation,
                   probeLocals, clusterLocals>>
    /\ UNCHANGED analyzeLocals

\* analyze() ends, the result is converted and the request answered
FinishExtract ==
    /\ \E k \in 1..Len(requests), converts \in BOOLEAN :
           /\ requests[k].pc = "loop"
           /\ requests[k].sIdx > Len(Strategies)
           /\ requests' = [requests EXCEPT ![k] =
                   handleExtractEnd(@, extractConversationEnd(
                                           analyzeEnd(@, dom, page, now), converts))]
    /\ UNCHANGED <<dom, page, now, pc, elements, i, userElement, conversation,
                   probeLocals, clusterLocals>>
    /\ UNCHANGED analyzeLocals

NextContent == Receive \/ ResumeAnalyze \/ FinishExtract

SpecContent == InitContent /\ [][NextContent]_vars

Answered(r) == r.pc = "returned"
Failure(error) == Response(FALSE, "", error, <<>>)

\* C30: every request gets at most one response while its handler runs and
\* exactly one once the handler has ended, whatever the other requests do:
\* 'ping' gets success, an unknown action a failure, 'extract' success with
\* the converted result, and an error of analyze() or of the conversion a
\* failure carrying the message of the error
C30_ExactlyOneResponse ==
    \A k \in 1..Len(requests) :
        \E r \in {requests[k]} :
            /\ Len(r.responses) <= 1
            /\ Answered(r) <=> Len(r.responses) = 1
            /\ ~Answered(r) => r.action = "extract"
            /\ (Answered(r) /\ r.action = "ping") =>
                   r.responses[1] = Response(TRUE, "pong", "", <<>>)
            /\ (Answered(r) /\ r.action = "other") =>
                   r.responses[1] = Failure("UnknownAction")
            /\ (Answered(r) /\ r.action = "extract") =>
                   \/ /\ r.bestResult = <<>>
                      /\ r.responses[1] = Failure("NoUsableResult")
                   \/ /\ r.bestResult # <<>>
                      /\ r.responses[1] = Failure("ConversionFailed")
                   \/ /\ r.bestResult # <<>>
                      /\ r.responses[1].success
                      /\ r.responses[1].data =
                             <<[format |-> "standard",
                                source |-> [validateAndEnhance(r.bestResult[1], page, dom, now)
                                               EXCEPT !.extractionStats.processingTimeMs = now]]>>

\* overlapping requests: an 'extract' answered with the conversion error
\* and a 'ping' answered with success while an earlier 'extract' is still
\* inside analyze()
C30_Witness ==
    /\ Len(requests) = 3
    /\ requests[1].action = "extract" /\ ~Answered(requests[1]) /\ requests[1].sIdx >= 2
    /\ requests[2].action = "extract"
    /\ requests[2].responses = <<Failure("ConversionFailed")>>
    /\ requests[3].responses = <<Response(TRUE, "pong", "", <<>>)>>
====
